---------------------------- MODULE Spec2Model ----------------------------
(***************************************************************************)
(* A model of the location picker of IftarInUAE                            *)
(* (client/src/components/LocationPicker.tsx): the three input modes       *)
(* (Photon search with a debounced query, a map pin reverse-geocoded by    *)
(* Nominatim, the device's GPS position reverse-geocoded by Nominatim),    *)
(* the sanitising helpers and the upward callbacks.                        *)
(*                                                                         *)
(* Text is a sequence of characters, each character a one-character        *)
(* string; "<DEL>" stands for U+007F, "<NBSP>" for U+00A0 and "<GRAVE>"    *)
(* for U+0060.  A number is                                                *)
(* a record: [k |-> "num", v |-> n] is n millionths of a degree, and       *)
(* [k |-> "nan"], [k |-> "inf"], [k |-> "-inf"] are the non-finite values. *)
(***************************************************************************)
EXTENDS Integers, Sequences, FiniteSets, TLC

\* ------------------------------------------------------------------ bounds

\* Most requests (Photon, Nominatim, device position) in flight at once.
MaxInFlight == 2
\* The time one Tick step lets pass, in ms.
TickMs == 150
\* The longest of the short texts a helper is called with.
MaxShortLen == 3

\* --------------------------------------------------------- program constants

\* The debounce delay of the search effect, in ms.
DebounceMs == 300
\* sanitiseAddress keeps this many characters.
MaxAddressLen == 300
\* The shortest trimmed query that is searched for.
MinQueryLen == 2
\* GeolocationPositionError codes.
PERMISSION_DENIED == 1
POSITION_UNAVAILABLE == 2
TIMEOUT == 3

\* ------------------------------------------------------------------ text

Ascii ==
    << " ", "!", "\"", "#", "$", "%", "&", "'", "(", ")", "*", "+", ",", "-", ".", "/",
       "0", "1", "2", "3", "4", "5", "6", "7", "8", "9", ":", ";", "<", "=", ">", "?",
       "@", "A", "B", "C", "D", "E", "F", "G", "H", "I", "J", "K", "L", "M", "N", "O",
       "P", "Q", "R", "S", "T", "U", "V", "W", "X", "Y", "Z", "[", "\\", "]", "^", "_",
       "<GRAVE>", "a", "b", "c", "d", "e", "f", "g", "h", "i", "j", "k", "l", "m", "n", "o",
       "p", "q", "r", "s", "t", "u", "v", "w", "x", "y", "z", "{", "|", "}", "~" >>

\* The code point of each printable character.
AsciiCode == [c \in {Ascii[i] : i \in 1..Len(Ascii)} |-> 31 + (CHOOSE i \in 1..Len(Ascii) : Ascii[i] = c)]

\* The code point of a character.
CharCode(c) ==
    CASE c = "\t" -> 9
      [] c = "\n" -> 10
      [] c = "\f" -> 12
      [] c = "\r" -> 13
      [] c = "<DEL>" -> 127
      [] c = "<NBSP>" -> 160
      [] OTHER -> AsciiCode[c]

\* The character class [\x00-\x1F\x7F] of sanitiseAddress.
IsControlChar(c) == CharCode(c) \in (0..31) \cup {127}

\* What String.prototype.trim removes at either end.
IsWhiteSpace(c) == CharCode(c) \in {9, 10, 11, 12, 13, 32, 160}

\* replace(/[\x00-\x1F\x7F]/g, ""): every match is removed.
StripControl(s) == SelectSeq(s, LAMBDA c : ~IsControlChar(c))

RECURSIVE TrimStart(_)
TrimStart(s) ==
    IF s # << >> /\ IsWhiteSpace(Head(s)) THEN TrimStart(Tail(s)) ELSE s

RECURSIVE TrimEnd(_)
TrimEnd(s) ==
    IF s # << >> /\ IsWhiteSpace(s[Len(s)]) THEN TrimEnd(SubSeq(s, 1, Len(s) - 1))
    ELSE s

Trim(s) == TrimEnd(TrimStart(s))

Slice(s, n) == SubSeq(s, 1, IF Len(s) < n THEN Len(s) ELSE n)

RECURSIVE Join(_, _)
Join(parts, sep) ==
    IF parts = << >> THEN << >>
    ELSE IF Len(parts) = 1 THEN parts[1]
         ELSE parts[1] \o sep \o Join(Tail(parts), sep)

CommaSpace == << ",", " " >>

\* --------------------------------------------------------------- numbers

Scale == 10 ^ 6

Num(n) == [k |-> "num", v |-> n]
NaN == [k |-> "nan"]
Infinity == [k |-> "inf"]
Undefined == [k |-> "undefined"]

isFinite(x) == x.k = "num"

DigitChar(d) == Ascii[17 + d]

RECURSIVE NatDigits(_)
NatDigits(n) ==
    IF n < 10 THEN << DigitChar(n) >>
    ELSE NatDigits(n \div 10) \o << DigitChar(n % 10) >>

\* n written with exactly w digits (leading zeros).
RECURSIVE PadDigits(_, _)
PadDigits(n, w) ==
    IF w = 0 THEN << >>
    ELSE PadDigits(n \div 10, w - 1) \o << DigitChar(n % 10) >>

RECURSIVE StripZeros(_)
StripZeros(s) ==
    IF s # << >> /\ s[Len(s)] = "0" THEN StripZeros(SubSeq(s, 1, Len(s) - 1))
    ELSE s

Abs(n) == IF n < 0 THEN 0 - n ELSE n

\* Number.prototype.toString: the shortest decimal form.
NumToString(x) ==
    CASE x.k = "nan" -> << "N", "a", "N" >>
      [] x.k = "inf" -> << "I", "n", "f", "i", "n", "i", "t", "y" >>
      [] x.k = "-inf" -> << "-", "I", "n", "f", "i", "n", "i", "t", "y" >>
      [] OTHER ->
           LET m == Abs(x.v)
               frac == StripZeros(PadDigits(m % Scale, 6))
           IN  (IF x.v < 0 THEN << "-" >> ELSE << >>)
               \o NatDigits(m \div Scale)
               \o (IF frac = << >> THEN << >> ELSE << "." >> \o frac)

\* Number.prototype.toFixed(5): rounded to 5 decimals, always 5 written.
NumToFixed5(x) ==
    CASE x.k = "nan" -> << "N", "a", "N" >>
      [] x.k = "inf" -> << "I", "n", "f", "i", "n", "i", "t", "y" >>
      [] x.k = "-inf" -> << "-", "I", "n", "f", "i", "n", "i", "t", "y" >>
      [] OTHER ->
           LET n == (Abs(x.v) + 5) \div 10
           IN  (IF x.v < 0 THEN << "-" >> ELSE << >>)
               \o NatDigits(n \div 100000)
               \o << "." >> \o PadDigits(n % 100000, 5)

\* ------------------------------------------------------ the pure helpers

\* isValidCoord with the poles and the antimeridian left out.
isValidCoordOpen(lat, lng) ==
    /\ isFinite(lat) /\ isFinite(lng)
    /\ lat.v > -90 * Scale /\ lat.v < 90 * Scale
    /\ lng.v > -180 * Scale /\ lng.v < 180 * Scale

isValidCoord(lat, lng) ==
    /\ isFinite(lat) /\ isFinite(lng)
    /\ lat.v >= -90 * Scale /\ lat.v <= 90 * Scale
    /\ lng.v >= -180 * Scale /\ lng.v <= 180 * Scale

\* sanitiseAddress trimming before it removes the control characters.
sanitiseAddressTrimFirst(raw) == Slice(StripControl(Trim(raw)), MaxAddressLen)

\* sanitiseAddress cutting to 300 characters before it trims.
sanitiseAddressSliceFirst(raw) == Trim(Slice(StripControl(raw), MaxAddressLen))

sanitiseAddress(raw) == Slice(Trim(StripControl(raw)), MaxAddressLen)

UnknownLocation ==
    << "U", "n", "k", "n", "o", "w", "n", " ", "l", "o", "c", "a", "t", "i", "o", "n" >>

NonEmpty(parts) == SelectSeq(parts, LAMBDA p : p # << >>)

\* buildReadableAddress pushing the street before the name.
buildReadableAddressStreetFirst(props) ==
    LET parts == NonEmpty(<< props.street, props.name, props.city, props.state >>)
        joined == Join(parts, CommaSpace)
    IN  sanitiseAddress(IF joined # << >> THEN joined ELSE UnknownLocation)

buildReadableAddress(props) ==
    LET parts == NonEmpty(<< props.name, props.street, props.city, props.state >>)
        joined == Join(parts, CommaSpace)
    IN  sanitiseAddress(IF joined # << >> THEN joined ELSE UnknownLocation)


\* --------------------------------------------------- provider responses

\* The ways a fetch, its status check or the reading of its body throws.
FailureKinds == {"networkError", "httpError", "badBody"}

Ok(data) == [kind |-> "ok", data |-> data]
Failure(kind) == [kind |-> kind]

\* NominatimResponse: an absent component is the empty text.
NominatimData(amenity, road, suburb, city, state, display_name) ==
    [address |-> [amenity |-> amenity, road |-> road, suburb |-> suburb,
                  city |-> city, state |-> state],
     display_name |-> display_name]

\* The address assembly of handlePinDrop and of the GPS success callback.
reverseAddress(data) ==
    LET parts == NonEmpty(<< data.address.amenity, data.address.road,
                             data.address.suburb, data.address.city,
                             data.address.state >>)
    IN  sanitiseAddress(IF Len(parts) > 0 THEN Join(parts, CommaSpace)
                        ELSE data.display_name)

\* PhotonFeature: geometry.coordinates is [lng, lat].
PhotonFeature(name, street, city, state, lng, lat) ==
    [properties |-> [name |-> name, street |-> street, city |-> city, state |-> state],
     coordinates |-> << lng, lat >>]

\* ------------------------------------------------------------------ inputs

\* What the user leaves in the search box: "", "a", "ab", "abc", " a".
QueryInputs ==
    {<< >>, << "a" >>, << "a", "b" >>, << "a", "b", "c" >>, << " ", "a" >>}

Coord(lat, lng) == [lat |-> lat, lng |-> lng]
\* (25.2, 55.3) and (24.466667, 54.366669)
CoordA == Coord(Num(25200000), Num(55300000))
CoordB == Coord(Num(24466667), Num(54366669))
\* (-24.123456, 190.500004): a longitude beyond 180, as a map that wraps
\* around the antimeridian reports it; and a latitude that is not a number
CoordFar == Coord(Num(-24123456), Num(190500004))
CoordNaN == Coord(NaN, Num(55300000))

\* What the map widget hands to onPinDrop, and the device to the success
\* callback.
PinInputs == {CoordA, CoordFar}
GpsInputs == {CoordB}

FeatureBurj ==
    PhotonFeature(<< "B", "u", "r", "j" >>, << >>, << "D", "u", "b", "a", "i" >>, << >>,
                  CoordA.lng, CoordA.lat)
FeatureBad ==
    PhotonFeature(<< "X", "\n" >>, << >>, << >>, << >>, CoordNaN.lng, CoordNaN.lat)
\* The features arrays of the Photon responses.
FeatureLists == {<< >>, << FeatureBurj >>, << FeatureBad >>, << FeatureBad, FeatureBurj >>}

\* A success body with its features, a success body without the field, or
\* a failure.
PhotonResponses ==
    {Ok([features |-> f]) : f \in FeatureLists} \cup {Ok([nofeatures |-> TRUE])}
        \cup {Failure(k) : k \in FailureKinds}

DataMall ==
    NominatimData(<< " ", "M", "a", "l", "l", "\t" >>, << >>, << >>,
                  << "D", "u", "b", "a", "i" >>, << >>, << "x" >>)
NominatimResponses == {Ok(DataMall)} \cup {Failure(k) : k \in FailureKinds}

GeoErrorCodes == {PERMISSION_DENIED, POSITION_UNAVAILABLE, TIMEOUT, 0}

\* ------------------------------------------------------------------- state

VARIABLES
    activeTab,            \* "search" | "map" | "gps"
    isLoading,
    error,                \* a message, or Null
    searchQuery,
    searchResults,        \* PhotonFeature[]
    isSearching,
    searchDebounceRef,    \* the id of the timer scheduled last, 0 for null
    mapLat, mapLng,       \* a number, or Undefined
    isReverseGeocoding,
    confirmedAddress,
    timers,               \* the pending timeouts: [id, query, remaining]
    searchRequests,       \* the Photon requests in flight: their q
    pinRequests,          \* the handlePinDrop calls awaiting Nominatim
    geoPending,           \* getCurrentPosition calls awaiting the device
    gpsRequests,          \* the GPS success callbacks awaiting Nominatim
    calls,                \* the callbacks the last step invoked, in order
    fnCall,               \* the helper called last on its own, with its arguments
    fnResult              \* what that call returned

\* The admin dashboard (the Admin component).
VARIABLES
    user,                 \* what useAuth returns: "none" for null, "member", "admin"
    authLoading,
    location,             \* the route shown: "/admin" or "/"
    stats,                \* the statistics shown, or [null |-> TRUE]
    pendingPlaces,
    allPlaces,
    adminIsLoading,       \* the dashboard's own isLoading
    actionLoading,        \* a place id, or Null
    fetches,              \* the fetchData calls awaiting: "token" or "fetch"
    actions,              \* the handleApprove and handleReject calls awaiting
    toasts,               \* the toasts the last step showed
    requests              \* the HTTP requests the last step issued

adminVars ==
    << user, authLoading, location, stats, pendingPlaces, allPlaces, adminIsLoading,
       actionLoading, fetches, actions, toasts, requests >>

\* The command-line script (main) and the two tables it touches.
VARIABLES
    args,                 \* process.argv.slice(2)
    pc,                   \* where main is: "idle" before a run, an await, or how it ended
    users,                \* the users table: id -> [email, isAdmin]
    places,               \* the places table: id -> [approved, approvedAt, approvedBy]
    selected,             \* the row make-admin selected (user), or 0
    exitCode,             \* [status |-> n]: process.exit(n), or 0 when main returned
    console               \* the lines the last step wrote

cliVars == << args, pc, users, places, selected, exitCode, console >>

vars ==
    << activeTab, isLoading, error, searchQuery, searchResults, isSearching,
       searchDebounceRef, mapLat, mapLng, isReverseGeocoding, confirmedAddress,
       timers, searchRequests, pinRequests, geoPending,
       gpsRequests, calls, fnCall, fnResult, adminVars, cliVars >>

\* The record of a helper called on its own; the component's handlers leave
\* it alone.
pureVars == << fnCall, fnResult >>
\* What the handlers of the location picker leave alone.
nonPickerVars == << pureVars, adminVars, cliVars >>
NoCall == [fn |-> "none"]

Null == "null"

MsgUnsupported == "Geolocation is not supported by your browser"
MsgAddressFailed == "Failed to get address. Please try again."
MsgDenied == "Location permission denied. Please enable it in your browser settings."
MsgUnavailable == "Location unavailable. Please try again."
MsgTimeout == "Location request timed out. Please try again."
MsgGeneric == "An error occurred getting your location."

Init ==
    /\ activeTab = "search"
    /\ isLoading = FALSE
    /\ error = Null
    /\ searchQuery = << >>
    /\ searchResults = << >>
    /\ isSearching = FALSE
    /\ searchDebounceRef = 0
    /\ mapLat = Undefined
    /\ mapLng = Undefined
    /\ isReverseGeocoding = FALSE
    /\ confirmedAddress = << >>
    /\ timers = {}
    /\ searchRequests = << >>
    /\ pinRequests = << >>
    /\ geoPending = 0
    /\ gpsRequests = << >>
    /\ calls = << >>
    /\ fnCall = NoCall
    /\ fnResult = NoCall
    /\ user = "none"
    /\ authLoading = TRUE
    /\ location = "/admin"
    /\ stats = [null |-> TRUE]
    /\ pendingPlaces = << >>
    /\ allPlaces = << >>
    /\ adminIsLoading = TRUE
    /\ actionLoading = Null
    /\ fetches = << >>
    /\ actions = << >>
    /\ toasts = << >>
    /\ requests = << >>
    /\ args = << >>
    /\ pc = "idle"
    /\ users = [id \in 1..3 |-> [email |-> IF id = 2 THEN "b@x.ae" ELSE "a@x.ae",
                                 isAdmin |-> FALSE]]
    /\ places = [id \in 1..2 |->
                     IF id = 1
                     THEN [approved |-> FALSE, approvedAt |-> Null, approvedBy |-> Null]
                     ELSE [approved |-> TRUE, approvedAt |-> "earlier", approvedBy |-> "u1"]]
    /\ selected = 0
    /\ exitCode = [none |-> TRUE]
    /\ console = << >>

RemoveAt(s, i) == SubSeq(s, 1, i - 1) \o SubSeq(s, i + 1, Len(s))

\* The requests awaiting their answer.
InFlight == Len(searchRequests) + Len(pinRequests) + geoPending + Len(gpsRequests)

\* ------------------------------------------------------------ notification

LocationData(address, lat, lng) ==
    [address |-> address, latitude |-> NumToString(lat), longitude |-> NumToString(lng)]

\* notifyLocation without its onChange.
notifyLocationNoOnChange(data) ==
    /\ calls' = << [cb |-> "onLocationFetched", data |-> data] >>
    /\ confirmedAddress' = data.address
    /\ error' = Null

notifyLocation(data) ==
    /\ calls' = << [cb |-> "onChange", address |-> data.address],
                   [cb |-> "onLocationFetched", data |-> data] >>
    /\ confirmedAddress' = data.address
    /\ error' = Null

\* ------------------------------------------------------------- search tab

clearTimeout(ts, id) == {t \in ts : t.id # id}

\* A timer id no pending timer has.
NewTimerId(ts) ==
    CHOOSE i \in 1..(Cardinality(ts) + 1) :
        /\ \A t \in ts : t.id # i
        /\ \A j \in 1..(i - 1) : \E t \in ts : t.id = j

\* SearchEffect with neither the cleanup nor the clearTimeout of its first line.
SearchEffectNoCancel(q, results) ==
    LET id == NewTimerId(timers)
    IN  IF Len(Trim(q)) < MinQueryLen
        THEN /\ searchResults' = << >>
             /\ UNCHANGED << timers, searchDebounceRef >>
        ELSE /\ searchResults' = results
             /\ timers' = timers \cup {[id |-> id, query |-> q, remaining |-> DebounceMs]}
             /\ searchDebounceRef' = id

\* SearchEffect measuring the query as typed, not trimmed.
SearchEffectUntrimmed(q, results) ==
    LET cleared == IF searchDebounceRef # 0
                   THEN clearTimeout(timers, searchDebounceRef)
                   ELSE timers
        id == NewTimerId(cleared)
    IN  IF Len(q) < MinQueryLen
        THEN /\ searchResults' = << >>
             /\ timers' = cleared
             /\ UNCHANGED searchDebounceRef
        ELSE /\ searchResults' = results
             /\ timers' = cleared \cup {[id |-> id, query |-> q, remaining |-> DebounceMs]}
             /\ searchDebounceRef' = id

\* The effect on [searchQuery], run after a render in which the query is q
\* and the handler left the result set at results: the previous run's
\* cleanup and the effect's first line both clear the timer the ref names.
SearchEffect(q, results) ==
    LET cleared == IF searchDebounceRef # 0
                   THEN clearTimeout(timers, searchDebounceRef)
                   ELSE timers
        id == NewTimerId(cleared)
    IN  IF Len(Trim(q)) < MinQueryLen
        THEN /\ searchResults' = << >>
             /\ timers' = cleared
             /\ UNCHANGED searchDebounceRef
        ELSE /\ searchResults' = results
             /\ timers' = cleared \cup {[id |-> id, query |-> q, remaining |-> DebounceMs]}
             /\ searchDebounceRef' = id

\* The user edits the search box: onChange={(e) => setSearchQuery(e.target.value)}.
SetSearchQuery(q) ==
    /\ activeTab = "search"
    /\ q # searchQuery
    /\ UNCHANGED nonPickerVars
    /\ UNCHANGED << activeTab, isLoading, error, isSearching, mapLat, mapLng,
                    isReverseGeocoding, confirmedAddress, searchRequests,
                    pinRequests, geoPending, gpsRequests >>
    /\ searchQuery' = q
    /\ calls' = << >>
    /\ SearchEffect(q, searchResults)

\* The timeout callback up to its await: the request leaves with the query
\* the effect captured.
DebounceFire(t) ==
    /\ t \in timers
    /\ t.remaining = 0
    /\ InFlight < MaxInFlight
    /\ UNCHANGED nonPickerVars
    /\ UNCHANGED << activeTab, isLoading, error, searchQuery, searchResults,
                    searchDebounceRef, mapLat, mapLng, isReverseGeocoding,
                    confirmedAddress, pinRequests, geoPending,
                    gpsRequests >>
    /\ timers' = timers \ {t}
    /\ isSearching' = TRUE
    /\ searchRequests' = Append(searchRequests, t.query)
    /\ calls' = << >>

\* SearchResponse resetting the form's field when the search fails.
SearchResponseResets(i, r) ==
    /\ i \in 1..Len(searchRequests)
    /\ UNCHANGED nonPickerVars
    /\ UNCHANGED << activeTab, isLoading, error, searchQuery, searchDebounceRef,
                    mapLat, mapLng, isReverseGeocoding, timers, pinRequests, geoPending, gpsRequests >>
    /\ searchRequests' = RemoveAt(searchRequests, i)
    /\ isSearching' = FALSE
    /\ IF r.kind = "ok"
       THEN /\ searchResults' = IF "features" \in DOMAIN r.data
                                THEN r.data.features ELSE << >>
            /\ calls' = << >>
            /\ UNCHANGED confirmedAddress
       ELSE /\ searchResults' = << >>
            /\ calls' = << [cb |-> "onChange", address |-> << >>] >>
            /\ confirmedAddress' = << >>

\* SearchResponse showing a message when the search fails.
SearchResponseShowsError(i, r) ==
    /\ i \in 1..Len(searchRequests)
    /\ UNCHANGED nonPickerVars
    /\ UNCHANGED << activeTab, isLoading, searchQuery, searchDebounceRef,
                    mapLat, mapLng, isReverseGeocoding, confirmedAddress, timers, pinRequests, geoPending, gpsRequests >>
    /\ searchRequests' = RemoveAt(searchRequests, i)
    /\ isSearching' = FALSE
    /\ calls' = << >>
    /\ IF r.kind = "ok"
       THEN /\ searchResults' = IF "features" \in DOMAIN r.data
                                THEN r.data.features ELSE << >>
            /\ UNCHANGED error
       ELSE /\ searchResults' = << >>
            /\ error' = "Search failed"

\* SearchResponse applying a response only to the query it was sent for.
SearchResponseDropsStale(i, r) ==
    /\ i \in 1..Len(searchRequests)
    /\ UNCHANGED nonPickerVars
    /\ UNCHANGED << activeTab, isLoading, error, searchQuery, searchDebounceRef,
                    mapLat, mapLng, isReverseGeocoding, confirmedAddress, timers, pinRequests, geoPending, gpsRequests >>
    /\ searchRequests' = RemoveAt(searchRequests, i)
    /\ isSearching' = FALSE
    /\ calls' = << >>
    /\ IF searchRequests[i] # searchQuery
       THEN UNCHANGED searchResults
       ELSE IF r.kind = "ok"
            THEN /\ searchResults' = IF "features" \in DOMAIN r.data
                                     THEN r.data.features ELSE << >>
            ELSE /\ searchResults' = << >>

\* The rest of the timeout callback: the i-th request in flight settles.
SearchResponse(i, r) ==
    /\ i \in 1..Len(searchRequests)
    /\ UNCHANGED nonPickerVars
    /\ UNCHANGED << activeTab, isLoading, error, searchQuery, searchDebounceRef,
                    mapLat, mapLng, isReverseGeocoding, confirmedAddress, timers, pinRequests, geoPending, gpsRequests >>
    /\ searchRequests' = RemoveAt(searchRequests, i)
    /\ isSearching' = FALSE
    /\ calls' = << >>
    /\ IF r.kind = "ok"
       THEN /\ searchResults' = IF "features" \in DOMAIN r.data
                                THEN r.data.features ELSE << >>
       ELSE /\ searchResults' = << >>

\* handleSearchSelect removing a malformed candidate from the dropdown and
\* saying so.
handleSearchSelectReports(i) ==
    /\ activeTab = "search"
    /\ i \in 1..Len(searchResults)
    /\ UNCHANGED nonPickerVars
    /\ UNCHANGED << activeTab, isLoading, isSearching, mapLat, mapLng,
                    isReverseGeocoding, searchRequests, pinRequests, geoPending,
                    gpsRequests >>
    /\ LET feature == searchResults[i]
           lng == feature.coordinates[1]
           lat == feature.coordinates[2]
           address == buildReadableAddress(feature.properties)
       IN  IF ~isValidCoord(lat, lng)
           THEN /\ calls' = << >>
                /\ searchResults' = RemoveAt(searchResults, i)
                /\ error' = "Invalid location"
                /\ UNCHANGED << searchQuery, searchDebounceRef, timers, confirmedAddress >>
           ELSE /\ searchQuery' = address
                /\ notifyLocation(LocationData(address, lat, lng))
                /\ IF address # searchQuery
                   THEN SearchEffect(address, << >>)
                   ELSE /\ searchResults' = << >>
                        /\ UNCHANGED << searchDebounceRef, timers >>

\* The user clicks the i-th row of the dropdown.
handleSearchSelect(i) ==
    /\ activeTab = "search"
    /\ i \in 1..Len(searchResults)
    /\ UNCHANGED nonPickerVars
    /\ UNCHANGED << activeTab, isLoading, isSearching, mapLat, mapLng,
                    isReverseGeocoding, searchRequests, pinRequests, geoPending,
                    gpsRequests >>
    /\ LET feature == searchResults[i]
           lng == feature.coordinates[1]
           lat == feature.coordinates[2]
           address == buildReadableAddress(feature.properties)
       IN  IF ~isValidCoord(lat, lng)
           THEN /\ calls' = << >>
                /\ UNCHANGED << searchQuery, searchResults, searchDebounceRef, timers,
                                confirmedAddress, error >>
           ELSE /\ searchQuery' = address
                /\ notifyLocation(LocationData(address, lat, lng))
                /\ IF address # searchQuery
                   THEN SearchEffect(address, << >>)
                   ELSE /\ searchResults' = << >>
                        /\ UNCHANGED << searchDebounceRef, timers >>

\* ---------------------------------------------------------------- map tab

\* handlePinDrop up to its await.
handlePinDrop(lat, lng) ==
    /\ activeTab = "map"
    /\ InFlight < MaxInFlight
    /\ UNCHANGED nonPickerVars
    /\ UNCHANGED << activeTab, isLoading, searchQuery, searchResults, isSearching,
                    searchDebounceRef, confirmedAddress, timers,
                    searchRequests, geoPending, gpsRequests >>
    /\ mapLat' = lat
    /\ mapLng' = lng
    /\ isReverseGeocoding' = TRUE
    /\ error' = Null
    /\ pinRequests' = Append(pinRequests, Coord(lat, lng))
    /\ calls' = << >>

\* PinDropResponse reporting a failed lookup as the GPS flow does.
PinDropResponseNoFallback(i, r) ==
    /\ i \in 1..Len(pinRequests)
    /\ UNCHANGED nonPickerVars
    /\ UNCHANGED << activeTab, isLoading, searchQuery, searchResults, isSearching,
                    searchDebounceRef, mapLat, mapLng, timers,
                    searchRequests, geoPending, gpsRequests >>
    /\ isReverseGeocoding' = FALSE
    /\ pinRequests' = RemoveAt(pinRequests, i)
    /\ LET lat == pinRequests[i].lat
           lng == pinRequests[i].lng
       IN  IF r.kind = "ok"
           THEN notifyLocation(LocationData(reverseAddress(r.data), lat, lng))
           ELSE /\ error' = MsgAddressFailed
                /\ calls' = << >>
                /\ UNCHANGED confirmedAddress

\* PinDropResponse reading the coordinates it emits from the map pin, not
\* from its own arguments.
PinDropResponseReadsPin(i, r) ==
    /\ i \in 1..Len(pinRequests)
    /\ UNCHANGED nonPickerVars
    /\ UNCHANGED << activeTab, isLoading, searchQuery, searchResults, isSearching,
                    searchDebounceRef, mapLat, mapLng, timers,
                    searchRequests, geoPending, gpsRequests >>
    /\ isReverseGeocoding' = FALSE
    /\ pinRequests' = RemoveAt(pinRequests, i)
    /\ LET lat == pinRequests[i].lat
           lng == pinRequests[i].lng
       IN  IF r.kind = "ok"
           THEN /\ notifyLocation(LocationData(reverseAddress(r.data), mapLat, mapLng))
           ELSE /\ notifyLocation(LocationData(
                        NumToFixed5(lat) \o CommaSpace \o NumToFixed5(lng), mapLat, mapLng))

\* PinDropResponse ignoring the lookup of a pin that has been moved since.
PinDropResponseLatestOnly(i, r) ==
    /\ i \in 1..Len(pinRequests)
    /\ UNCHANGED nonPickerVars
    /\ UNCHANGED << activeTab, isLoading, searchQuery, searchResults, isSearching,
                    searchDebounceRef, mapLat, mapLng, timers,
                    searchRequests, geoPending, gpsRequests >>
    /\ isReverseGeocoding' = FALSE
    /\ pinRequests' = RemoveAt(pinRequests, i)
    /\ LET lat == pinRequests[i].lat
           lng == pinRequests[i].lng
       IN  IF lat # mapLat \/ lng # mapLng
           THEN /\ calls' = << >>
                /\ UNCHANGED << confirmedAddress, error >>
           ELSE IF r.kind = "ok"
                THEN /\ notifyLocation(LocationData(reverseAddress(r.data), lat, lng))
                ELSE /\ notifyLocation(LocationData(
                             NumToFixed5(lat) \o CommaSpace \o NumToFixed5(lng), lat, lng))

\* The rest of handlePinDrop: the i-th lookup in flight settles.
PinDropResponse(i, r) ==
    /\ i \in 1..Len(pinRequests)
    /\ UNCHANGED nonPickerVars
    /\ UNCHANGED << activeTab, isLoading, searchQuery, searchResults, isSearching,
                    searchDebounceRef, mapLat, mapLng, timers,
                    searchRequests, geoPending, gpsRequests >>
    /\ isReverseGeocoding' = FALSE
    /\ pinRequests' = RemoveAt(pinRequests, i)
    /\ LET lat == pinRequests[i].lat
           lng == pinRequests[i].lng
       IN  IF r.kind = "ok"
           THEN /\ notifyLocation(LocationData(reverseAddress(r.data), lat, lng))
           ELSE /\ notifyLocation(LocationData(
                        NumToFixed5(lat) \o CommaSpace \o NumToFixed5(lng), lat, lng))

\* ---------------------------------------------------------------- GPS tab

\* fetchGpsLocation behind a button that is never disabled.
fetchGpsLocationUnguarded(supported) ==
    /\ activeTab = "gps"
    /\ supported => InFlight < MaxInFlight
    /\ UNCHANGED nonPickerVars
    /\ UNCHANGED << activeTab, searchQuery, searchResults, isSearching,
                    searchDebounceRef, mapLat, mapLng, isReverseGeocoding,
                    confirmedAddress, timers, searchRequests,
                    pinRequests, gpsRequests >>
    /\ calls' = << >>
    /\ IF ~supported
       THEN /\ error' = MsgUnsupported
            /\ isLoading' = FALSE
            /\ UNCHANGED geoPending
       ELSE /\ error' = Null
            /\ isLoading' = TRUE
            /\ geoPending' = geoPending + 1

\* The button is disabled while isLoading; supported is navigator.geolocation.
fetchGpsLocation(supported) ==
    /\ activeTab = "gps"
    /\ ~isLoading
    /\ supported => InFlight < MaxInFlight
    /\ UNCHANGED nonPickerVars
    /\ UNCHANGED << activeTab, searchQuery, searchResults, isSearching,
                    searchDebounceRef, mapLat, mapLng, isReverseGeocoding,
                    confirmedAddress, timers, searchRequests,
                    pinRequests, gpsRequests >>
    /\ calls' = << >>
    /\ IF ~supported
       THEN /\ error' = MsgUnsupported
            /\ isLoading' = FALSE
            /\ UNCHANGED geoPending
       ELSE /\ error' = Null
            /\ isLoading' = TRUE
            /\ geoPending' = geoPending + 1

\* The success callback up to its await.
GeoSuccess(latitude, longitude) ==
    /\ geoPending > 0
    /\ UNCHANGED nonPickerVars
    /\ UNCHANGED << activeTab, isLoading, error, searchQuery, searchResults,
                    isSearching, searchDebounceRef, mapLat, mapLng,
                    isReverseGeocoding, confirmedAddress, timers,
                    searchRequests, pinRequests >>
    /\ geoPending' = geoPending - 1
    /\ gpsRequests' = Append(gpsRequests, Coord(latitude, longitude))
    /\ calls' = << >>

\* GeoErrorMessage with the timeout falling through to the default.
GeoErrorMessageNoTimeout(code) ==
    CASE code = PERMISSION_DENIED -> MsgDenied
      [] code = POSITION_UNAVAILABLE -> MsgUnavailable
      [] OTHER -> MsgGeneric

GeoErrorMessage(code) ==
    CASE code = PERMISSION_DENIED -> MsgDenied
      [] code = POSITION_UNAVAILABLE -> MsgUnavailable
      [] code = TIMEOUT -> MsgTimeout
      [] OTHER -> MsgGeneric

\* GeoError forgetting the map pin.
GeoErrorResetsPin(code) ==
    /\ geoPending > 0
    /\ UNCHANGED nonPickerVars
    /\ UNCHANGED << activeTab, searchQuery, searchResults, isSearching,
                    searchDebounceRef, isReverseGeocoding,
                    confirmedAddress, timers, searchRequests,
                    pinRequests, gpsRequests >>
    /\ geoPending' = geoPending - 1
    /\ isLoading' = FALSE
    /\ error' = GeoErrorMessage(code)
    /\ mapLat' = Undefined
    /\ mapLng' = Undefined
    /\ calls' = << >>

\* The error callback.
GeoError(code) ==
    /\ geoPending > 0
    /\ UNCHANGED nonPickerVars
    /\ UNCHANGED << activeTab, searchQuery, searchResults, isSearching,
                    searchDebounceRef, mapLat, mapLng, isReverseGeocoding,
                    confirmedAddress, timers, searchRequests,
                    pinRequests, gpsRequests >>
    /\ geoPending' = geoPending - 1
    /\ isLoading' = FALSE
    /\ error' = GeoErrorMessage(code)
    /\ calls' = << >>

\* GpsResponse falling back to the coordinate pair as handlePinDrop does.
GpsResponseFallback(i, r) ==
    /\ i \in 1..Len(gpsRequests)
    /\ UNCHANGED nonPickerVars
    /\ UNCHANGED << activeTab, searchQuery, searchResults, isSearching,
                    searchDebounceRef, isReverseGeocoding, timers,
                    searchRequests, pinRequests, geoPending >>
    /\ isLoading' = FALSE
    /\ gpsRequests' = RemoveAt(gpsRequests, i)
    /\ LET latitude == gpsRequests[i].lat
           longitude == gpsRequests[i].lng
       IN  IF r.kind = "ok"
           THEN /\ notifyLocation(
                        LocationData(reverseAddress(r.data), latitude, longitude))
                /\ mapLat' = latitude
                /\ mapLng' = longitude
           ELSE /\ notifyLocation(LocationData(
                        NumToFixed5(latitude) \o CommaSpace \o NumToFixed5(longitude),
                        latitude, longitude))
                /\ UNCHANGED << mapLat, mapLng >>

\* GpsResponse with setIsLoading(false) as the last statement of the try
\* block and no finally.
GpsResponseNoFinally(i, r) ==
    /\ i \in 1..Len(gpsRequests)
    /\ UNCHANGED nonPickerVars
    /\ UNCHANGED << activeTab, searchQuery, searchResults, isSearching,
                    searchDebounceRef, isReverseGeocoding, timers,
                    searchRequests, pinRequests, geoPending >>
    /\ gpsRequests' = RemoveAt(gpsRequests, i)
    /\ LET latitude == gpsRequests[i].lat
           longitude == gpsRequests[i].lng
       IN  IF r.kind = "ok"
           THEN /\ notifyLocation(
                        LocationData(reverseAddress(r.data), latitude, longitude))
                /\ mapLat' = latitude
                /\ mapLng' = longitude
                /\ isLoading' = FALSE
           ELSE /\ error' = MsgAddressFailed
                /\ calls' = << >>
                /\ UNCHANGED << mapLat, mapLng, confirmedAddress, isLoading >>

\* The rest of the success callback: the i-th lookup in flight settles.
GpsResponse(i, r) ==
    /\ i \in 1..Len(gpsRequests)
    /\ UNCHANGED nonPickerVars
    /\ UNCHANGED << activeTab, searchQuery, searchResults, isSearching,
                    searchDebounceRef, isReverseGeocoding, timers,
                    searchRequests, pinRequests, geoPending >>
    /\ isLoading' = FALSE
    /\ gpsRequests' = RemoveAt(gpsRequests, i)
    /\ LET latitude == gpsRequests[i].lat
           longitude == gpsRequests[i].lng
       IN  IF r.kind = "ok"
           THEN /\ notifyLocation(
                        LocationData(reverseAddress(r.data), latitude, longitude))
                /\ mapLat' = latitude
                /\ mapLng' = longitude
           ELSE /\ error' = MsgAddressFailed
                /\ calls' = << >>
                /\ UNCHANGED << mapLat, mapLng, confirmedAddress >>

\* ---------------------------------------------------------------- tab bar

Tabs == {"search", "map", "gps"}

\* SetActiveTab without its setError(null).
SetActiveTabKeepsError(tab) ==
    /\ UNCHANGED nonPickerVars
    /\ UNCHANGED << isLoading, error, searchQuery, searchResults, isSearching,
                    searchDebounceRef, mapLat, mapLng, isReverseGeocoding,
                    confirmedAddress, timers, searchRequests,
                    pinRequests, geoPending, gpsRequests >>
    /\ activeTab' = tab
    /\ calls' = << >>

\* onClick={() => { setActiveTab(tab.id); setError(null); }}
SetActiveTab(tab) ==
    /\ UNCHANGED nonPickerVars
    /\ UNCHANGED << isLoading, searchQuery, searchResults, isSearching,
                    searchDebounceRef, mapLat, mapLng, isReverseGeocoding,
                    confirmedAddress, timers, searchRequests,
                    pinRequests, geoPending, gpsRequests >>
    /\ activeTab' = tab
    /\ error' = Null
    /\ calls' = << >>

\* ------------------------------------------------------------------- time

Min(a, b) == IF a < b THEN a ELSE b
Max(a, b) == IF a > b THEN a ELSE b

\* TickMs pass with no handler running.
Tick ==
    /\ \E t \in timers : t.remaining > 0
    /\ UNCHANGED nonPickerVars
    /\ UNCHANGED << activeTab, isLoading, error, searchQuery, searchResults,
                    isSearching, searchDebounceRef, mapLat, mapLng,
                    isReverseGeocoding, confirmedAddress, searchRequests,
                    pinRequests, geoPending, gpsRequests >>
    /\ timers' = {[t EXCEPT !.remaining = Max(0, @ - TickMs)] : t \in timers}
    /\ calls' = << >>

\* ---------------------------------------------------------- specification

Next ==
    \/ \E q \in QueryInputs : SetSearchQuery(q)
    \/ \E t \in timers : DebounceFire(t)
    \/ \E i \in 1..MaxInFlight, r \in PhotonResponses : SearchResponse(i, r)
    \/ \E i \in 1..Len(searchResults) : handleSearchSelect(i)
    \/ \E c \in PinInputs : handlePinDrop(c.lat, c.lng)
    \/ \E i \in 1..MaxInFlight, r \in NominatimResponses : PinDropResponse(i, r)
    \/ \E supported \in BOOLEAN : fetchGpsLocation(supported)
    \/ \E c \in GpsInputs : GeoSuccess(c.lat, c.lng)
    \/ \E code \in GeoErrorCodes : GeoError(code)
    \/ \E i \in 1..MaxInFlight, r \in NominatimResponses : GpsResponse(i, r)
    \/ \E tab \in Tabs : SetActiveTab(tab)
    \/ Tick

Spec == Init /\ [][Next]_vars

\* The device invokes one of the two callbacks of getCurrentPosition.
GeoCallback ==
    \/ \E c \in GpsInputs : GeoSuccess(c.lat, c.lng)
    \/ \E code \in GeoErrorCodes : GeoError(code)

\* The reverse lookup of a GPS success callback settles.
GpsSettle == \E i \in 1..MaxInFlight, r \in NominatimResponses : GpsResponse(i, r)

\* The component with a device that answers every getCurrentPosition call
\* and a network that settles every reverse lookup of the GPS flow.
SpecLive == Spec /\ WF_vars(GeoCallback) /\ WF_vars(GpsSettle)

\* ------------------------------------------------ the helpers on their own

pickerVars ==
    << activeTab, isLoading, error, searchQuery, searchResults, isSearching,
       searchDebounceRef, mapLat, mapLng, isReverseGeocoding, confirmedAddress,
       timers, searchRequests, pinRequests, geoPending, gpsRequests, calls >>

\* What a helper called on its own leaves alone.
nonPureVars == << pickerVars, adminVars, cliVars >>

Repeat(c, n) == [i \in 1..n |-> c]

\* The numbers at and next to the limits of isValidCoord, and the values
\* that are not finite.
NumberInputs ==
    {NaN, Infinity, [k |-> "-inf"]}
        \cup {Num(n) : n \in {-180 * Scale - 1, -180 * Scale, -90 * Scale - 1, -90 * Scale, 0,
                              90 * Scale, 90 * Scale + 1, 180 * Scale, 180 * Scale + 1}}

\* A letter, a space, a control character that is white space and one that
\* is not.
TextAlphabet == {"a", " ", "\n", "<DEL>"}
ShortTexts == UNION {[1..n -> TextAlphabet] : n \in 0..MaxShortLen}
\* Texts about as long as sanitiseAddress lets them be.
LongTexts ==
    {pre \o Repeat("a", n) \o suf :
        pre \in {<< >>, << " " >>, << "<DEL>" >>},
        n \in {MaxAddressLen - 1, MaxAddressLen, MaxAddressLen + 1},
        suf \in {<< >>, << " " >>, << " ", "b" >>, << "<DEL>" >>}}
SanitiseInputs == ShortTexts \cup LongTexts

\* The properties of a Photon feature: each absent, or present.
PropsInputs ==
    [name : {<< >>, << "B" >>, << " " >>}, street : {<< >>, << "R" >>},
     city : {<< >>, << "C" >>}, state : {<< >>, << "T", "\n" >>}]

\* The bodies of a Nominatim response: each component absent, or present.
NominatimInputs ==
    {NominatimData(a, r, s, c, t, d) :
        a \in {<< >>, << "A" >>}, r \in {<< >>, << "R" >>}, s \in {<< >>, << "S" >>},
        c \in {<< >>, << "C" >>}, t \in {<< >>, << "T" >>},
        d \in {<< "D" >>, << "\t", "D", " " >>}}

CallIsValidCoord(lat, lng) ==
    /\ UNCHANGED nonPureVars
    /\ fnCall' = [fn |-> "isValidCoord", lat |-> lat, lng |-> lng]
    /\ fnResult' = isValidCoord(lat, lng)

CallSanitiseAddress(raw) ==
    /\ UNCHANGED nonPureVars
    /\ fnCall' = [fn |-> "sanitiseAddress", raw |-> raw]
    /\ fnResult' = sanitiseAddress(raw)

CallBuildReadableAddress(props) ==
    /\ UNCHANGED nonPureVars
    /\ fnCall' = [fn |-> "buildReadableAddress", props |-> props]
    /\ fnResult' = buildReadableAddress(props)

CallReverseAddress(data) ==
    /\ UNCHANGED nonPureVars
    /\ fnCall' = [fn |-> "reverseAddress", data |-> data]
    /\ fnResult' = reverseAddress(data)

\* sanitiseAddress applied to its own output.
CallSanitiseAddressTwice(raw) ==
    /\ UNCHANGED nonPureVars
    /\ fnCall' = [fn |-> "sanitiseAddressTwice", raw |-> raw]
    /\ fnResult' = [first |-> sanitiseAddress(raw),
                    second |-> sanitiseAddress(sanitiseAddress(raw))]

NextPure ==
    \/ \E lat \in NumberInputs, lng \in NumberInputs : CallIsValidCoord(lat, lng)
    \/ \E raw \in SanitiseInputs : CallSanitiseAddress(raw)
    \/ \E raw \in SanitiseInputs : CallSanitiseAddressTwice(raw)
    \/ \E props \in PropsInputs : CallBuildReadableAddress(props)
    \/ \E data \in NominatimInputs : CallReverseAddress(data)

SpecPure == Init /\ [][NextPure]_vars

\* -------------------------------------------------- the admin dashboard

\* What the admin dashboard leaves alone.
nonAdminVars == << pickerVars, pureVars, cliVars >>

\* Invocations of fetchData, handleApprove and handleReject awaiting at once.
MaxAdminInFlight == 2

\* What useAuth can return as the user: null, a user whose isAdmin is
\* false, a user whose isAdmin is true.
Users == {"none", "member", "admin"}

PlaceIds == {"p1", "p2"}
Place(id, approved) == [id |-> id, approved |-> approved]
\* What the places endpoints answer with.
PlaceLists ==
    {<< >>,
     << Place("p1", FALSE), Place("p2", FALSE) >>,
     << Place("p1", TRUE), Place("p2", FALSE) >>}
StatsInputs ==
    {[totalPlaces |-> 2, approvedPlaces |-> 1, pendingPlaces |-> 1, approvedToday |-> 0]}

\* A response: its ok flag and what res.json() gives, or that it rejects.
Res(ok, json) == [ok |-> ok, valid |-> TRUE, json |-> json]
BadJson(ok) == [ok |-> ok, valid |-> FALSE]
StatsResponses == {BadJson(FALSE), BadJson(TRUE)} \cup {Res(TRUE, d) : d \in StatsInputs}
PlacesResponses == {BadJson(FALSE), BadJson(TRUE)} \cup {Res(TRUE, d) : d \in PlaceLists}
\* How the Promise.all of fetchData settles.
FetchDataResponses ==
    {[kind |-> "rejected"]}
        \cup {[kind |-> "settled", statsRes |-> a, pendingRes |-> b, allRes |-> c] :
                 a \in StatsResponses, b \in PlacesResponses, c \in PlacesResponses}
\* How getIdToken settles, and how the fetch of an action does.
TokenOutcomes == {"resolved", "rejected"}
ActionResponses == {"ok", "not ok", "rejected"}

Toast(title, description) == [title |-> title, description |-> description]
ToastAccessDenied ==
    Toast("Access Denied", "You do not have permission to view the admin panel.")
ToastLoadFailed == Toast("Error", "Failed to load admin data. Please try again.")
ToastSuccess(op) ==
    Toast("Success", IF op = "approve" THEN "Place approved successfully."
                                      ELSE "Place rejected and deleted.")
ToastFailed(op) ==
    Toast("Error", IF op = "approve" THEN "Failed to approve place."
                                    ELSE "Failed to reject place.")

Request(method, url) == [method |-> method, url |-> url]
FetchDataRequests ==
    << Request("GET", << "/api/admin/stats" >>),
       Request("GET", << "/api/admin/places/pending" >>),
       Request("GET", << "/api/admin/places" >>) >>
ActionRequest(op, id) ==
    IF op = "approve"
    THEN Request("PATCH", << "/api/admin/places/", id, "/approve" >>)
    ELSE Request("DELETE", << "/api/admin/places/", id, "/reject" >>)

AdminInFlight == Len(fetches) + Len(actions)

\* The dashboard is on screen: neither the spinner nor null is returned.
Rendered ==
    /\ location = "/admin"
    /\ ~(authLoading \/ adminIsLoading)
    /\ user = "admin"

\* The rows of the two tables.
Rows == {pendingPlaces[i] : i \in 1..Len(pendingPlaces)} \cup {allPlaces[i] : i \in 1..Len(allPlaces)}
ApproveShown(id) == \E place \in Rows : place.id = id /\ ~place.approved
RejectShown(id) == \E place \in Rows : place.id = id
ButtonsDisabled(id) == actionLoading = id

\* fetchData up to its first await, in a closure whose user is u.
fetchData(u) ==
    IF u # "admin"
    THEN UNCHANGED << adminIsLoading, fetches >>
    ELSE /\ adminIsLoading' = TRUE
         /\ fetches' = Append(fetches, "token")

\* useAuth returns another user, or has finished loading; the two effects
\* run when the component is on its route.
AuthStateChanged(u) ==
    /\ authLoading \/ u # user
    /\ (location = "/admin" /\ u = "admin") => AdminInFlight < MaxAdminInFlight
    /\ UNCHANGED nonAdminVars
    /\ UNCHANGED << stats, pendingPlaces, allPlaces, actionLoading, actions >>
    /\ user' = u
    /\ authLoading' = FALSE
    /\ requests' = << >>
    /\ IF location = "/admin"
       THEN /\ IF u # "admin"
               THEN /\ location' = "/"
                    /\ toasts' = << ToastAccessDenied >>
               ELSE /\ UNCHANGED location
                    /\ toasts' = << >>
            /\ IF u = "admin" /\ u # user
               THEN fetchData(u)
               ELSE UNCHANGED << adminIsLoading, fetches >>
       ELSE /\ UNCHANGED << location, adminIsLoading, fetches >>
            /\ toasts' = << >>

\* The Refresh Data button.
RefreshData ==
    /\ Rendered
    /\ AdminInFlight < MaxAdminInFlight
    /\ UNCHANGED nonAdminVars
    /\ UNCHANGED << user, authLoading, location, stats, pendingPlaces, allPlaces,
                    actionLoading, actions >>
    /\ fetchData(user)
    /\ toasts' = << >>
    /\ requests' = << >>

\* The getIdToken of the n-th fetchData settles: the three requests leave,
\* or the catch and the finally run.
FetchToken(n, t) ==
    /\ n \in 1..Len(fetches)
    /\ fetches[n] = "token"
    /\ UNCHANGED nonAdminVars
    /\ UNCHANGED << user, authLoading, location, stats, pendingPlaces, allPlaces,
                    actionLoading, actions >>
    /\ IF t = "resolved"
       THEN /\ fetches' = [fetches EXCEPT ![n] = "fetch"]
            /\ requests' = FetchDataRequests
            /\ toasts' = << >>
            /\ UNCHANGED adminIsLoading
       ELSE /\ fetches' = RemoveAt(fetches, n)
            /\ requests' = << >>
            /\ toasts' = << ToastLoadFailed >>
            /\ adminIsLoading' = FALSE

\* The Promise.all of the n-th fetchData settles.
FetchResponse(n, r) ==
    /\ n \in 1..Len(fetches)
    /\ fetches[n] = "fetch"
    /\ UNCHANGED nonAdminVars
    /\ UNCHANGED << user, authLoading, location, actionLoading, actions >>
    /\ fetches' = RemoveAt(fetches, n)
    /\ requests' = << >>
    /\ adminIsLoading' = FALSE
    /\ IF r.kind = "rejected"
       THEN /\ toasts' = << ToastLoadFailed >>
            /\ UNCHANGED << stats, pendingPlaces, allPlaces >>
       ELSE LET thrown1 == r.statsRes.ok /\ ~r.statsRes.valid
                thrown2 == ~thrown1 /\ r.pendingRes.ok /\ ~r.pendingRes.valid
                thrown3 == ~thrown1 /\ ~thrown2 /\ r.allRes.ok /\ ~r.allRes.valid
            IN  /\ stats' = IF r.statsRes.ok /\ ~thrown1 THEN r.statsRes.json ELSE stats
                /\ pendingPlaces' = IF ~thrown1 /\ r.pendingRes.ok /\ ~thrown2
                                    THEN r.pendingRes.json ELSE pendingPlaces
                /\ allPlaces' = IF ~thrown1 /\ ~thrown2 /\ r.allRes.ok /\ ~thrown3
                                THEN r.allRes.json ELSE allPlaces
                /\ toasts' = IF thrown1 \/ thrown2 \/ thrown3
                             THEN << ToastLoadFailed >> ELSE << >>

\* handleApprove behind a button that is there whatever the component
\* returns.
handleApproveUnrendered(id) ==
    /\ ~ButtonsDisabled(id)
    /\ AdminInFlight < MaxAdminInFlight
    /\ UNCHANGED nonAdminVars
    /\ UNCHANGED << user, authLoading, location, stats, pendingPlaces, allPlaces,
                    adminIsLoading, fetches >>
    /\ actionLoading' = id
    /\ actions' = Append(actions, [op |-> "approve", id |-> id, stage |-> "token", user |-> user])
    /\ toasts' = << >>
    /\ requests' = << >>

\* The Approve button of a row, up to the first await of handleApprove.
handleApprove(id) ==
    /\ Rendered
    /\ ApproveShown(id)
    /\ ~ButtonsDisabled(id)
    /\ AdminInFlight < MaxAdminInFlight
    /\ UNCHANGED nonAdminVars
    /\ UNCHANGED << user, authLoading, location, stats, pendingPlaces, allPlaces,
                    adminIsLoading, fetches >>
    /\ actionLoading' = id
    /\ actions' = Append(actions, [op |-> "approve", id |-> id, stage |-> "token", user |-> user])
    /\ toasts' = << >>
    /\ requests' = << >>

\* The Reject button of a row, up to the first await of handleReject;
\* confirmed is what confirm() returns.
handleReject(id, confirmed) ==
    /\ Rendered
    /\ RejectShown(id)
    /\ ~ButtonsDisabled(id)
    /\ confirmed => AdminInFlight < MaxAdminInFlight
    /\ UNCHANGED nonAdminVars
    /\ UNCHANGED << user, authLoading, location, stats, pendingPlaces, allPlaces,
                    adminIsLoading, fetches >>
    /\ toasts' = << >>
    /\ requests' = << >>
    /\ IF confirmed
       THEN /\ actionLoading' = id
            /\ actions' = Append(actions, [op |-> "reject", id |-> id, stage |-> "token", user |-> user])
       ELSE UNCHANGED << actionLoading, actions >>

\* The getIdToken of the n-th action settles: its request leaves, or the
\* catch and the finally run.
ActionToken(n, t) ==
    /\ n \in 1..Len(actions)
    /\ actions[n].stage = "token"
    /\ UNCHANGED nonAdminVars
    /\ UNCHANGED << user, authLoading, location, stats, pendingPlaces, allPlaces,
                    adminIsLoading, fetches >>
    /\ IF t = "resolved"
       THEN /\ actions' = [actions EXCEPT ![n].stage = "fetch"]
            /\ requests' = << ActionRequest(actions[n].op, actions[n].id) >>
            /\ toasts' = << >>
            /\ UNCHANGED actionLoading
       ELSE /\ actions' = RemoveAt(actions, n)
            /\ requests' = << >>
            /\ toasts' = << ToastFailed(actions[n].op) >>
            /\ actionLoading' = Null

\* ActionResponse with the refresh in the finally block.
ActionResponseAlwaysRefreshes(n, r) ==
    /\ n \in 1..Len(actions)
    /\ actions[n].stage = "fetch"
    /\ UNCHANGED nonAdminVars
    /\ UNCHANGED << user, authLoading, location, stats, pendingPlaces, allPlaces >>
    /\ actions' = RemoveAt(actions, n)
    /\ requests' = << >>
    /\ actionLoading' = Null
    /\ fetchData(actions[n].user)
    /\ IF r = "ok"
       THEN toasts' = << ToastSuccess(actions[n].op) >>
       ELSE toasts' = << ToastFailed(actions[n].op) >>

\* The fetch of the n-th action settles: res.ok, not res.ok, or a rejection.
\* fetchData is the one of the render in which the button was clicked.
ActionResponse(n, r) ==
    /\ n \in 1..Len(actions)
    /\ actions[n].stage = "fetch"
    /\ UNCHANGED nonAdminVars
    /\ UNCHANGED << user, authLoading, location, stats, pendingPlaces, allPlaces >>
    /\ actions' = RemoveAt(actions, n)
    /\ requests' = << >>
    /\ actionLoading' = Null
    /\ IF r = "ok"
       THEN /\ toasts' = << ToastSuccess(actions[n].op) >>
            /\ fetchData(actions[n].user)
       ELSE /\ toasts' = << ToastFailed(actions[n].op) >>
            /\ UNCHANGED << adminIsLoading, fetches >>

NextAdmin ==
    \/ \E u \in Users : AuthStateChanged(u)
    \/ RefreshData
    \/ \E n \in 1..MaxAdminInFlight, t \in TokenOutcomes : FetchToken(n, t)
    \/ \E n \in 1..MaxAdminInFlight, r \in FetchDataResponses : FetchResponse(n, r)
    \/ \E id \in PlaceIds : handleApprove(id)
    \/ \E id \in PlaceIds, confirmed \in BOOLEAN : handleReject(id, confirmed)
    \/ \E n \in 1..MaxAdminInFlight, t \in TokenOutcomes : ActionToken(n, t)
    \/ \E n \in 1..MaxAdminInFlight, r \in ActionResponses : ActionResponse(n, r)

SpecAdmin == Init /\ [][NextAdmin]_vars

\* ------------------------------------------------- the command-line script

\* What the script leaves alone.
nonCliVars == << pickerVars, pureVars, adminVars >>

\* The command lines: none, each command, make-admin without an email, with
\* an empty one, with the email of two users, of one user and of no user,
\* and trailing arguments.
ArgvInputs ==
    {<< >>, << "migrate-places" >>, << "list-users" >>, << "help" >>,
     << "make-admin" >>, << "make-admin", "" >>, << "make-admin", "a@x.ae" >>,
     << "make-admin", "b@x.ae" >>, << "make-admin", "c@x.ae" >>,
     << "list-users", "a@x.ae" >>}

\* args[0] and args[1] of the script, "undefined" past the end.
ArgAt(a, i) == IF Len(a) > i THEN a[i + 1] ELSE "undefined"

\* The process has ended with this status; it has not ended.
Exit(status) == [status |-> status]
NoExit == [none |-> TRUE]

\* An awaited query or pool.end() resolves, or rejects.
QueryOutcomes == {"resolved", "rejected"}

\* main rejects: main().catch(console.error) logs it, pool.end() is not
\* reached.
MainRejects ==
    /\ pc' = "rejected"
    /\ console' = << "error: rejected" >>
    /\ UNCHANGED << args, users, places, selected, exitCode >>

\* The script is started: main up to its first await, or to process.exit.
main(argv) ==
    /\ pc \in {"idle", "done", "exited", "rejected"}
    /\ UNCHANGED nonCliVars
    /\ UNCHANGED << users, places >>
    /\ args' = argv
    /\ selected' = 0
    /\ LET command == ArgAt(argv, 0)
           email == ArgAt(argv, 1)
       IN  CASE command = "migrate-places" ->
                    /\ console' = << "log: Approving all existing places..." >>
                    /\ pc' = "update places"
                    /\ exitCode' = NoExit
              [] command = "make-admin" ->
                    IF email \in {"undefined", ""}
                    THEN /\ console' = << "error: Please provide an email address." >>
                         /\ pc' = "exited"
                         /\ exitCode' = Exit(1)
                    ELSE /\ console' = << "log: Making an admin..." >>
                         /\ pc' = "select user"
                         /\ exitCode' = NoExit
              [] command = "list-users" ->
                    /\ console' = << "log: Listing users..." >>
                    /\ pc' = "select users"
                    /\ exitCode' = NoExit
              [] OTHER ->
                    /\ console' = << "log: Usage" >>
                    /\ pc' = "pool.end"
                    /\ exitCode' = NoExit

\* migrate-places: db.update(places).set({...}).returning() settles.
MigratePlaces(o) ==
    /\ pc = "update places"
    /\ UNCHANGED nonCliVars
    /\ IF o = "resolved"
       THEN /\ places' = [id \in DOMAIN places |->
                             [approved |-> TRUE, approvedAt |-> "now",
                              approvedBy |-> "system_migration"]]
            /\ console' = << "log: Updated places to approved." >>
            /\ pc' = "pool.end"
            /\ UNCHANGED << args, users, selected, exitCode >>
       ELSE MainRejects

\* make-admin: the select settles; row is the one the destructuring takes
\* when rows match.
SelectUser(o, row) ==
    /\ pc = "select user"
    /\ UNCHANGED nonCliVars
    /\ IF o = "resolved"
       THEN LET matching == {id \in DOMAIN users : users[id].email = ArgAt(args, 1)}
            IN  IF matching = {}
                THEN /\ console' = << "error: User not found!" >>
                     /\ pc' = "exited"
                     /\ exitCode' = Exit(1)
                     /\ UNCHANGED << args, users, places, selected >>
                ELSE /\ row \in matching
                     /\ selected' = row
                     /\ pc' = "update user"
                     /\ console' = << >>
                     /\ UNCHANGED << args, users, places, exitCode >>
       ELSE /\ row = 1
            /\ MainRejects

\* make-admin with an update that has no where clause.
MakeAdminEveryone(o) ==
    /\ pc = "update user"
    /\ UNCHANGED nonCliVars
    /\ IF o = "resolved"
       THEN /\ users' = [id \in DOMAIN users |-> [users[id] EXCEPT !.isAdmin = TRUE]]
            /\ console' = << "log: User is now an Admin." >>
            /\ pc' = "pool.end"
            /\ UNCHANGED << args, places, selected, exitCode >>
       ELSE MainRejects

\* make-admin: db.update(users).set({ isAdmin: true }).where(eq(users.id,
\* user.id)) settles.
MakeAdmin(o) ==
    /\ pc = "update user"
    /\ UNCHANGED nonCliVars
    /\ IF o = "resolved"
       THEN /\ users' = [id \in DOMAIN users |->
                            IF id = selected THEN [users[id] EXCEPT !.isAdmin = TRUE]
                            ELSE users[id]]
            /\ console' = << "log: User is now an Admin." >>
            /\ pc' = "pool.end"
            /\ UNCHANGED << args, places, selected, exitCode >>
       ELSE MainRejects

\* list-users: the select settles and each user is printed.
ListUsers(o) ==
    /\ pc = "select users"
    /\ UNCHANGED nonCliVars
    /\ IF o = "resolved"
       THEN /\ console' = [id \in 1..3 |->
                              IF users[id].isAdmin THEN "log: [ADMIN]" ELSE "log: [USER]"]
            /\ pc' = "pool.end"
            /\ UNCHANGED << args, users, places, selected, exitCode >>
       ELSE MainRejects

\* await pool.end() settles and main returns.
PoolEnd(o) ==
    /\ pc = "pool.end"
    /\ UNCHANGED nonCliVars
    /\ IF o = "resolved"
       THEN /\ pc' = "done"
            /\ exitCode' = Exit(0)
            /\ console' = << >>
            /\ UNCHANGED << args, users, places, selected >>
       ELSE MainRejects

NextCli ==
    \/ \E argv \in ArgvInputs : main(argv)
    \/ \E o \in QueryOutcomes : MigratePlaces(o)
    \/ \E o \in QueryOutcomes, row \in 1..3 : SelectUser(o, row)
    \/ \E o \in QueryOutcomes : MakeAdmin(o)
    \/ \E o \in QueryOutcomes : ListUsers(o)
    \/ \E o \in QueryOutcomes : PoolEnd(o)

SpecCli == Init /\ [][NextCli]_vars

\* ------------------------------------------------- vocabulary of the claims

Failures == {Failure(k) : k \in FailureKinds}

\* What one notification hands to the hosting form.
Notification(address, latitude, longitude) ==
    << [cb |-> "onChange", address |-> address],
       [cb |-> "onLocationFetched",
        data |-> [address |-> address, latitude |-> latitude, longitude |-> longitude]] >>

\* The coordinate pair written with 5 decimals each.
CoordinateLabel(lat, lng) == NumToFixed5(lat) \o << ",", " " >> \o NumToFixed5(lng)

\* The number a decimal text denotes.
RECURSIVE DigitsValue(_)
DigitsValue(s) ==
    IF s = << >> THEN 0
    ELSE 10 * DigitsValue(SubSeq(s, 1, Len(s) - 1)) + (CharCode(s[Len(s)]) - 48)

NumberOf(s) ==
    CASE s = << "N", "a", "N" >> -> NaN
      [] s = << "I", "n", "f", "i", "n", "i", "t", "y" >> -> Infinity
      [] s = << "-", "I", "n", "f", "i", "n", "i", "t", "y" >> -> [k |-> "-inf"]
      [] OTHER ->
           LET neg == s[1] = "-"
               body == IF neg THEN Tail(s) ELSE s
               dots == {i \in 1..Len(body) : body[i] = "."}
               dot == IF dots = {} THEN Len(body) + 1 ELSE CHOOSE i \in dots : TRUE
               whole == SubSeq(body, 1, dot - 1)
               frac == SubSeq(body, dot + 1, Len(body))
               n == DigitsValue(whole) * Scale + DigitsValue(frac) * 10 ^ (6 - Len(frac))
           IN  Num(IF neg THEN 0 - n ELSE n)

ValidResolvedLocation(d) ==
    /\ isFinite(NumberOf(d.latitude)) /\ isFinite(NumberOf(d.longitude))
    /\ NumberOf(d.latitude).v >= -90 * Scale /\ NumberOf(d.latitude).v <= 90 * Scale
    /\ NumberOf(d.longitude).v >= -180 * Scale /\ NumberOf(d.longitude).v <= 180 * Scale
    /\ Len(d.address) <= 300
    /\ \A n \in 1..Len(d.address) : ~(CharCode(d.address[n]) \in (0..31) \cup {127})

TextBurjDubai == << "B", "u", "r", "j", ",", " ", "D", "u", "b", "a", "i" >>
TextMallDubai == << "M", "a", "l", "l", ",", " ", "D", "u", "b", "a", "i" >>
Text25_2 == << "2", "5", ".", "2" >>
Text55_3 == << "5", "5", ".", "3" >>
TextLabelA ==
    << "2", "5", ".", "2", "0", "0", "0", "0", ",", " ",
       "5", "5", ".", "3", "0", "0", "0", "0" >>
TextABC == << "a", "b", "c" >>

\* ------------------------------------------------------------------ claims

\* C1: every ResolvedLocation handed to onLocationFetched has a finite
\* latitude in [-90, 90], a finite longitude in [-180, 180] and an address
\* of at most 300 characters without control characters, whatever the map
\* widget, the device and the providers deliver.
C1_EmittedLocationValid ==
    \A n \in 1..Len(calls) :
        calls[n].cb = "onLocationFetched" => ValidResolvedLocation(calls[n].data)

\* C2: at every moment at most one debounce timer is pending, the one the
\* ref names, and it carries the query as it is; every change of the query
\* leaves no timer but one with the whole of DebounceMs to run; a
\* forward-search request leaves only when the delay of the pending timer
\* has run out, carries the query as it is and leaves no timer behind.  So
\* a burst of query changes less than DebounceMs apart sends one request at
\* most, DebounceMs or more after its last change, for its last text.
C2_OneTimer ==
    /\ Cardinality(timers) <= 1
    /\ \A t \in timers : t.query = searchQuery /\ t.id = searchDebounceRef

C2_Step ==
    /\ searchQuery' # searchQuery =>
           \A t \in timers' : t.query = searchQuery' /\ t.remaining = DebounceMs
    /\ searchRequests' # searchRequests /\ Len(searchRequests') > Len(searchRequests) =>
           /\ \E t \in timers : t.remaining = 0
           /\ searchRequests' = Append(searchRequests, searchQuery)
           /\ timers' = {}

C2_Debounce == [] C2_OneTimer /\ [][C2_Step]_vars

C2_Witness ==
    /\ searchQuery = TextABC
    /\ searchRequests = << TextABC >>
    /\ isSearching
    /\ timers = {}

\* C3: a query change to a text whose trimmed length is below 2 cancels
\* the pending timer and empties the result set in the same step, and no
\* timer and no request ever exists for such a text.
C3_ShortChange ==
    (searchQuery' # searchQuery /\ Len(Trim(searchQuery')) < 2) =>
        (timers' = {} /\ searchResults' = << >>)

C3_NothingForShort ==
    /\ \A t \in timers : Len(Trim(t.query)) >= 2
    /\ \A n \in 1..Len(searchRequests) : Len(Trim(searchRequests[n])) >= 2

C3_ShortQuery == [] C3_NothingForShort /\ [][C3_ShortChange]_vars

C3_Witness ==
    /\ searchQuery = << " ", "a" >>
    /\ timers = {}
    /\ searchResults = << >>
    /\ searchDebounceRef # 0
    /\ searchRequests # << >>

\* C4: a pin drop at (lat, lng) whose reverse lookup fails is still
\* notified once, onChange then onLocationFetched, with the address
\* toFixed(5) of lat, ", ", toFixed(5) of lng and the coordinates as their
\* string forms; no error message is set and isReverseGeocoding is cleared.
\* At (25.2, 55.3) this is "25.20000, 55.30000", "25.2", "55.3".
C4_FailedLookup ==
    \A i \in 1..Len(pinRequests), r \in Failures :
        PinDropResponse(i, r) =>
            LET lat == pinRequests[i].lat
                lng == pinRequests[i].lng
            IN  /\ calls' = Notification(CoordinateLabel(lat, lng),
                                         NumToString(lat), NumToString(lng))
                /\ Coord(lat, lng) = CoordA =>
                       calls' = Notification(TextLabelA, Text25_2, Text55_3)
                /\ confirmedAddress' = CoordinateLabel(lat, lng)
                /\ error' = Null
                /\ isReverseGeocoding' = FALSE

C4_PinDropFallback == [][C4_FailedLookup]_vars

C4_Witness ==
    /\ calls = Notification(TextLabelA, Text25_2, Text55_3)
    /\ confirmedAddress = TextLabelA
    /\ mapLat = CoordA.lat
    /\ error = Null
    /\ ~isReverseGeocoding

\* C5 as stated: a failed reverse lookup of the GPS flow is notified with
\* the coordinate pair as the address, as a failed pin drop is.
C5_GpsFallsBack ==
    \A i \in 1..Len(gpsRequests), r \in Failures :
        GpsResponse(i, r) =>
            LET lat == gpsRequests[i].lat
                lng == gpsRequests[i].lng
            IN  /\ calls' = Notification(CoordinateLabel(lat, lng),
                                         NumToString(lat), NumToString(lng))
                /\ confirmedAddress' = CoordinateLabel(lat, lng)

C5_Original == [][C5_GpsFallsBack]_vars

\* C5 amended: a failed reverse lookup of the GPS flow sets the message
\* "Failed to get address. Please try again.", clears isLoading, invokes no
\* callback and leaves the confirmed address and the map pin as they were.
C5_GpsFails ==
    \A i \in 1..Len(gpsRequests), r \in Failures :
        GpsResponse(i, r) =>
            /\ error' = "Failed to get address. Please try again."
            /\ isLoading' = FALSE
            /\ calls' = << >>
            /\ UNCHANGED << confirmedAddress, mapLat, mapLng >>

C5_GpsLookupFailure == [][C5_GpsFails]_vars

C5_Witness ==
    /\ error = MsgAddressFailed
    /\ ~isLoading
    /\ gpsRequests = << >>
    /\ geoPending = 0
    /\ calls = << >>
    /\ mapLat = Undefined

\* The failures that are not a failed lookup of a pin drop: a device error,
\* no geolocation, a failed forward search, a failed lookup of the GPS flow,
\* a selected candidate with malformed coordinates.
FailureStep ==
    \/ \E code \in GeoErrorCodes : GeoError(code)
    \/ fetchGpsLocation(FALSE)
    \/ \E i \in 1..Len(searchRequests), r \in Failures : SearchResponse(i, r)
    \/ \E i \in 1..Len(gpsRequests), r \in Failures : GpsResponse(i, r)
    \/ \E i \in 1..Len(searchResults) :
        /\ ~isValidCoord(searchResults[i].coordinates[2], searchResults[i].coordinates[1])
        /\ handleSearchSelect(i)

PinFailureStep ==
    \E i \in 1..Len(pinRequests), r \in Failures : PinDropResponse(i, r)

\* C6 as stated: every failure leaves the confirmed address as it was and
\* invokes no callback.
C6_Original ==
    [][(FailureStep \/ PinFailureStep) =>
        (confirmedAddress' = confirmedAddress /\ calls' = << >>)]_vars

\* C6 amended: every failure but a failed lookup of a pin drop leaves the
\* confirmed address as it was and invokes no callback; a failed lookup
\* of a pin drop invokes both callbacks with the coordinate pair.
C6_FailuresKeepConfirmed ==
    [][/\ FailureStep => (confirmedAddress' = confirmedAddress /\ calls' = << >>)
       /\ PinFailureStep => (Len(calls') = 2 /\ confirmedAddress' = calls'[1].address)]_vars

C6_Witness ==
    /\ error = MsgAddressFailed
    /\ confirmedAddress = TextBurjDubai
    /\ calls = << >>

\* C7: a device-location error sets the message of its class, the four
\* messages being different; it clears isLoading, asks the device for
\* nothing and sends no request.
C7_ErrorStep ==
    \A code \in GeoErrorCodes :
        GeoError(code) =>
            /\ code = PERMISSION_DENIED =>
                   error' = "Location permission denied. Please enable it in your browser settings."
            /\ code = POSITION_UNAVAILABLE =>
                   error' = "Location unavailable. Please try again."
            /\ code = TIMEOUT => error' = "Location request timed out. Please try again."
            /\ code \notin {PERMISSION_DENIED, POSITION_UNAVAILABLE, TIMEOUT} =>
                   error' = "An error occurred getting your location."
            /\ isLoading' = FALSE
            /\ geoPending' < geoPending
            /\ UNCHANGED << gpsRequests, pinRequests, searchRequests, timers >>

C7_DeviceError == [][C7_ErrorStep]_vars

C7_Witness ==
    /\ error = "Location request timed out. Please try again."
    /\ ~isLoading
    /\ InFlight = 0

\* C8: a device-location error changes neither the confirmed address, nor
\* the map pin, nor the search query, nor the result set, and invokes no
\* callback.
C8_ErrorStep ==
    \A code \in GeoErrorCodes :
        GeoError(code) =>
            /\ UNCHANGED << confirmedAddress, mapLat, mapLng, searchQuery, searchResults >>
            /\ calls' = << >>
            /\ error' # Null

C8_DeviceErrorFrame == [][C8_ErrorStep]_vars

C8_Witness ==
    /\ error = MsgDenied
    /\ confirmedAddress # << >>
    /\ mapLat # Undefined
    /\ searchQuery # << >>
    /\ searchResults # << >>

\* C9: the callbacks of a step are none, or onChange with an address and
\* then onLocationFetched with that address, once each; each successful
\* resolution (a valid candidate selected, a lookup of a pin drop or of the
\* GPS flow answered) invokes them so with its own address and
\* coordinates, makes that address the confirmed one and clears the error.
C9_Calls ==
    \/ calls = << >>
    \/ /\ Len(calls) = 2
       /\ calls[1].cb = "onChange"
       /\ calls[2].cb = "onLocationFetched"
       /\ calls[2].data.address = calls[1].address

C9_Resolved(address, lat, lng) ==
    /\ calls' = Notification(address, NumToString(lat), NumToString(lng))
    /\ confirmedAddress' = address
    /\ error' = Null

C9_SuccessStep ==
    /\ \A i \in 1..Len(searchResults) :
        LET f == searchResults[i]
        IN  (isValidCoord(f.coordinates[2], f.coordinates[1]) /\ handleSearchSelect(i)) =>
                C9_Resolved(buildReadableAddress(f.properties),
                            f.coordinates[2], f.coordinates[1])
    /\ \A i \in 1..Len(pinRequests), r \in NominatimResponses \ Failures :
        PinDropResponse(i, r) =>
            C9_Resolved(reverseAddress(r.data), pinRequests[i].lat, pinRequests[i].lng)
    /\ \A i \in 1..Len(gpsRequests), r \in NominatimResponses \ Failures :
        GpsResponse(i, r) =>
            C9_Resolved(reverseAddress(r.data), gpsRequests[i].lat, gpsRequests[i].lng)

C9_Notification == [] C9_Calls /\ [][C9_SuccessStep]_vars

C9_Witness ==
    /\ calls = Notification(TextBurjDubai, Text25_2, Text55_3)
    /\ confirmedAddress = TextBurjDubai
    /\ searchQuery = TextBurjDubai
    /\ error = Null

\* C10: a click on a tab makes it the active one, clears the error and
\* changes nothing else: the confirmed address, the map pin, the query,
\* the result set, the three flags, the timers and the requests in flight
\* stay, and no callback is invoked.
C10_TabStep ==
    \A tab \in Tabs :
        SetActiveTab(tab) =>
            /\ activeTab' = tab
            /\ error' = Null
            /\ calls' = << >>
            /\ UNCHANGED << confirmedAddress, mapLat, mapLng, searchQuery, searchResults,
                            isLoading, isSearching, isReverseGeocoding, timers,
                            searchDebounceRef, searchRequests, pinRequests, geoPending,
                            gpsRequests >>

C10_TabSwitch == [] (activeTab \in Tabs) /\ [][C10_TabStep]_vars

C10_Witness ==
    /\ activeTab = "gps"
    /\ error = Null
    /\ confirmedAddress # << >>
    /\ timers # {}
    /\ pinRequests # << >>
    /\ isReverseGeocoding

\* What the claims say of sanitiseAddress: the characters U+0000..U+001F
\* and U+007F removed, the white space at both ends removed, the first 300
\* characters kept.
RECURSIVE C12_Kept(_)
C12_Kept(raw) ==
    IF Len(raw) = 0 THEN << >>
    ELSE IF Len(raw) = 1
         THEN IF CharCode(raw[1]) \in (0..31) \cup {127} THEN << >> ELSE raw
         ELSE LET half == Len(raw) \div 2
              IN  C12_Kept(SubSeq(raw, 1, half)) \o C12_Kept(SubSeq(raw, half + 1, Len(raw)))

C12_Trimmed(s) ==
    LET ink == {i \in 1..Len(s) : CharCode(s[i]) \notin {9, 10, 11, 12, 13, 32, 160}}
    IN  IF ink = {} THEN << >>
        ELSE SubSeq(s, CHOOSE i \in ink : \A j \in ink : i <= j,
                       CHOOSE i \in ink : \A j \in ink : i >= j)

C12_First300(s) == IF Len(s) <= 300 THEN s ELSE SubSeq(s, 1, 300)

Sanitised(raw) == C12_First300(C12_Trimmed(C12_Kept(raw)))

\* The first n components, those present joined by ", ".
RECURSIVE Composed(_, _)
Composed(parts, n) ==
    IF n = 0 THEN << >>
    ELSE LET before == Composed(parts, n - 1)
         IN  IF parts[n] = << >> THEN before
             ELSE IF before = << >> THEN parts[n]
                  ELSE before \o << ",", " " >> \o parts[n]

\* C11: isValidCoord(lat, lng) is true exactly when both are finite,
\* -90 <= lat <= 90 and -180 <= lng <= 180; -90, 90, -180 and 180 are
\* accepted, NaN and the infinities are rejected in either position.
C11_Accepts(lat, lng) ==
    /\ lat.k = "num" /\ lng.k = "num"
    /\ lat.v \in (-90 * Scale)..(90 * Scale)
    /\ lng.v \in (-180 * Scale)..(180 * Scale)

C11_IsValidCoord ==
    fnCall.fn = "isValidCoord" =>
        /\ fnResult = C11_Accepts(fnCall.lat, fnCall.lng)
        /\ (/\ fnCall.lat \in {Num(-90 * Scale), Num(90 * Scale)}
            /\ fnCall.lng \in {Num(-180 * Scale), Num(180 * Scale)}) => fnResult = TRUE
        /\ (fnCall.lat.k \in {"nan", "inf", "-inf"} \/ fnCall.lng.k \in {"nan", "inf", "-inf"})
               => fnResult = FALSE

C11_Witness ==
    /\ fnCall = [fn |-> "isValidCoord", lat |-> Num(90 * Scale), lng |-> Num(-180 * Scale)]
    /\ fnResult = TRUE

\* C12: sanitiseAddress returns a text of at most 300 characters with no
\* character of U+0000..U+001F or U+007F: its input with those characters
\* removed, then trimmed, then cut to its first 300 characters.
C12_SanitiseAddress ==
    fnCall.fn = "sanitiseAddress" =>
        /\ Len(fnResult) <= 300
        /\ \A i \in 1..Len(fnResult) : CharCode(fnResult[i]) \notin (0..31) \cup {127}
        /\ fnResult = C12_First300(C12_Trimmed(C12_Kept(fnCall.raw)))

C12_Witness ==
    /\ fnCall.fn = "sanitiseAddress"
    /\ fnCall.raw = << "<DEL>" >> \o Repeat("a", 299) \o << " ", "b" >>
    /\ fnResult = Repeat("a", 299) \o << " " >>

\* C13 as stated: for both providers the address is made of the components
\* present, in their order, joined by ", ", and when none is present it is
\* a display text of the provider's response.
C13_Original ==
    /\ fnCall.fn = "buildReadableAddress" =>
           LET p == fnCall.props
               parts == << p.name, p.street, p.city, p.state >>
           IN  IF Composed(parts, 4) # << >>
               THEN fnResult = Sanitised(Composed(parts, 4))
               ELSE fnResult \in {Sanitised(p[f]) : f \in DOMAIN p}
    /\ fnCall.fn = "reverseAddress" =>
           LET a == fnCall.data.address
               parts == << a.amenity, a.road, a.suburb, a.city, a.state >>
           IN  IF Composed(parts, 5) # << >>
               THEN fnResult = Sanitised(Composed(parts, 5))
               ELSE fnResult = Sanitised(fnCall.data.display_name)

\* C13 amended: the address of a reverse lookup is made of amenity, road,
\* suburb, city and state, those present, in this order, joined by ", ",
\* or is display_name when none is present; the address of a search
\* feature is made of name, street, city and state in the same way, or is
\* "Unknown location" when none is present; both go through
\* sanitiseAddress.
C13_AddressAssembly ==
    /\ fnCall.fn = "buildReadableAddress" =>
           LET p == fnCall.props
               parts == << p.name, p.street, p.city, p.state >>
           IN  IF Composed(parts, 4) # << >>
               THEN fnResult = Sanitised(Composed(parts, 4))
               ELSE fnResult = << "U", "n", "k", "n", "o", "w", "n", " ",
                                  "l", "o", "c", "a", "t", "i", "o", "n" >>
    /\ fnCall.fn = "reverseAddress" =>
           LET a == fnCall.data.address
               parts == << a.amenity, a.road, a.suburb, a.city, a.state >>
           IN  IF Composed(parts, 5) # << >>
               THEN fnResult = Sanitised(Composed(parts, 5))
               ELSE fnResult = Sanitised(fnCall.data.display_name)

C13_Witness ==
    /\ fnCall.fn = "buildReadableAddress"
    /\ fnCall.props = [name |-> << >>, street |-> << >>, city |-> << >>, state |-> << >>]
    /\ fnResult = UnknownLocation

\* C14: no candidate whose coordinates fail validation is in the result
\* set the dropdown shows.
C14_NoInvalidCandidateListed ==
    \A i \in 1..Len(searchResults) :
        C11_Accepts(searchResults[i].coordinates[2], searchResults[i].coordinates[1])

\* C15: selecting a candidate whose coordinates fail validation invokes no
\* callback and changes neither the error, nor the confirmed address, nor
\* the query, nor the result set, nor the map pin, nor anything else.
C15_InvalidSelectStep ==
    \A i \in 1..Len(searchResults) :
        (/\ ~C11_Accepts(searchResults[i].coordinates[2], searchResults[i].coordinates[1])
         /\ handleSearchSelect(i)) =>
            /\ calls' = << >>
            /\ UNCHANGED << error, confirmedAddress, searchQuery, searchResults, mapLat,
                            mapLng, timers, searchDebounceRef, searchRequests, isSearching,
                            isLoading, isReverseGeocoding, activeTab >>

C15_InvalidSelect == [][C15_InvalidSelectStep]_vars

C15_Witness ==
    /\ activeTab = "search"
    /\ searchResults = << FeatureBad, FeatureBurj >>
    /\ confirmedAddress = TextMallDubai
    /\ mapLat # Undefined
    /\ error # Null
    /\ calls = << >>

\* C16: a forward search that fails empties the result set and clears
\* isSearching; it leaves the error and the confirmed address as they were
\* and invokes no callback.  A success body without features empties the
\* result set too.
C16_FailedSearchStep ==
    \A i \in 1..Len(searchRequests) :
        /\ \A r \in Failures :
               SearchResponse(i, r) =>
                   /\ searchResults' = << >>
                   /\ isSearching' = FALSE
                   /\ calls' = << >>
                   /\ UNCHANGED << error, confirmedAddress >>
        /\ SearchResponse(i, Ok([nofeatures |-> TRUE])) =>
               (searchResults' = << >> /\ isSearching' = FALSE)

C16_FailedSearch == [][C16_FailedSearchStep]_vars

C16_Witness ==
    /\ searchQuery = << "a", "b" >>
    /\ searchResults = << >>
    /\ searchRequests = << >>
    /\ timers = {}
    /\ searchDebounceRef # 0
    /\ ~isSearching
    /\ confirmedAddress = TextBurjDubai
    /\ calls = << >>

\* The address a reverse lookup resolves to.
ResolvedAddress(data) ==
    LET a == data.address
        parts == << a.amenity, a.road, a.suburb, a.city, a.state >>
    IN  IF Composed(parts, 5) # << >> THEN Sanitised(Composed(parts, 5))
        ELSE Sanitised(data.display_name)

\* What a trigger can resolve to: a feature to its own address and
\* coordinates, a pin drop to the answer to its lookup (or, that failing,
\* to its own coordinate label) with its own coordinates, a GPS fix to the
\* answer to its lookup with its own coordinates.
WholeLocations ==
    {[address |-> Sanitised(Composed(<< f.properties.name, f.properties.street,
                                       f.properties.city, f.properties.state >>, 4)),
      latitude |-> NumToString(f.coordinates[2]),
      longitude |-> NumToString(f.coordinates[1])] : f \in {FeatureBurj}}
    \cup {[address |-> a, latitude |-> NumToString(c.lat), longitude |-> NumToString(c.lng)] :
            c \in PinInputs \cup GpsInputs, a \in {ResolvedAddress(DataMall)}}
    \cup {[address |-> CoordinateLabel(c.lat, c.lng), latitude |-> NumToString(c.lat),
           longitude |-> NumToString(c.lng)] : c \in PinInputs}

\* The notification a pin drop or a GPS fix at c resolves to when its
\* lookup is answered by r, and the location a selected feature resolves to.
ResolutionOf ==
    [c \in PinInputs \cup GpsInputs, r \in NominatimResponses |->
        Notification(IF r.kind = "ok" THEN ResolvedAddress(r.data)
                     ELSE CoordinateLabel(c.lat, c.lng),
                     NumToString(c.lat), NumToString(c.lng))]

FeatureLocation ==
    [f \in {FeatureBurj, FeatureBad} |->
        [address |-> Sanitised(Composed(<< f.properties.name, f.properties.street,
                                          f.properties.city, f.properties.state >>, 4)),
         latitude |-> NumToString(f.coordinates[2]),
         longitude |-> NumToString(f.coordinates[1])]]

\* C17: the address, latitude and longitude of every emitted location
\* come from one trigger: a settled pin drop or GPS lookup emits the
\* coordinates its own call was made with and the address of its own
\* answer, whatever has been triggered since; a selection emits the
\* address and coordinates of the selected feature.  (A lookup that
\* settles leaves the requests in flight, a pin drop joins them.)
C17_Whole ==
    \A n \in 1..Len(calls) :
        calls[n].cb = "onLocationFetched" => calls[n].data \in WholeLocations

C17_OneTriggerStep ==
    /\ Len(pinRequests') < Len(pinRequests) =>
           \A i \in 1..Len(pinRequests), r \in NominatimResponses :
               PinDropResponse(i, r) => calls' = ResolutionOf[pinRequests[i], r]
    /\ Len(gpsRequests') < Len(gpsRequests) =>
           \A i \in 1..Len(gpsRequests), r \in NominatimResponses \ Failures :
               GpsResponse(i, r) => calls' = ResolutionOf[gpsRequests[i], r]
    /\ \A i \in 1..Len(searchResults) :
           (handleSearchSelect(i) /\ calls' # << >>) =>
               calls'[2].data = FeatureLocation[searchResults[i]]

C17_NeverMerged == [] C17_Whole /\ [][C17_OneTriggerStep]_vars

C17_Witness ==
    /\ calls = Notification(TextLabelA, Text25_2, Text55_3)
    /\ mapLat = CoordFar.lat
    /\ mapLng = CoordFar.lng
    /\ pinRequests = << CoordFar >>

\* C18 as stated: neither flow is guarded: a pin can be dropped whenever
\* the map tab is shown, and the device can be asked whenever the GPS tab
\* is shown, other invocations being in flight or not.
C18_Original ==
    /\ (activeTab = "map" /\ InFlight < MaxInFlight) =>
           \A c \in PinInputs : ENABLED handlePinDrop(c.lat, c.lng)
    /\ (activeTab = "gps" /\ InFlight < MaxInFlight) => ENABLED fetchGpsLocation(TRUE)

\* C18 amended: a pin can be dropped whenever the map tab is shown,
\* lookups of earlier drops being in flight or not; the GPS flow cannot be
\* triggered while isLoading, isLoading holds exactly while an invocation
\* of it is in flight, and so at most one is.
C18_Guards ==
    /\ (activeTab = "map" /\ InFlight < MaxInFlight) =>
           \A c \in PinInputs : ENABLED handlePinDrop(c.lat, c.lng)
    /\ isLoading => ~ENABLED fetchGpsLocation(TRUE)
    /\ isLoading <=> (geoPending + Len(gpsRequests) > 0)
    /\ geoPending + Len(gpsRequests) <= 1

C18_Witness ==
    /\ pinRequests = << CoordA, CoordFar >>
    /\ isReverseGeocoding
    /\ activeTab = "map"

\* C19: each pin drop moves the pin to its coordinates and confirms
\* nothing; each lookup that settles, in whatever order, confirms and
\* emits its own resolution and leaves the pin where it is.  So after two
\* overlapping drops A then B the confirmed location is that of the
\* lookup settled last, and the pin is B's.
C19_PinStep ==
    /\ Len(pinRequests') > Len(pinRequests) =>
           \A c \in PinInputs :
               handlePinDrop(c.lat, c.lng) =>
                   /\ mapLat' = c.lat /\ mapLng' = c.lng
                   /\ UNCHANGED confirmedAddress
                   /\ calls' = << >>
    /\ Len(pinRequests') < Len(pinRequests) =>
           \A i \in 1..Len(pinRequests), r \in NominatimResponses :
               PinDropResponse(i, r) =>
                   /\ confirmedAddress' = ResolutionOf[pinRequests[i], r][1].address
                   /\ calls' = ResolutionOf[pinRequests[i], r]
                   /\ UNCHANGED << mapLat, mapLng >>

C19_LastSettledWins == [][C19_PinStep]_vars

C19_Witness ==
    /\ pinRequests = << >>
    /\ mapLat = CoordFar.lat
    /\ mapLng = CoordFar.lng
    /\ confirmedAddress = TextLabelA
    /\ calls = Notification(TextLabelA, Text25_2, Text55_3)

\* C20: a request in flight leaves only by being answered, and its answer
\* is made the result set whatever the query is by then.
C20_StaleStep ==
    /\ Len(searchRequests') >= Len(searchRequests) =>
           SubSeq(searchRequests', 1, Len(searchRequests)) = searchRequests
    /\ Len(searchRequests') < Len(searchRequests) =>
           \E i \in 1..Len(searchRequests), r \in PhotonResponses : SearchResponse(i, r)
    /\ \A i \in 1..Len(searchRequests), f \in FeatureLists :
           SearchResponse(i, Ok([features |-> f])) => searchResults' = f

C20_StaleResults == [][C20_StaleStep]_vars

C20_Witness ==
    /\ searchResults = << FeatureBurj >>
    /\ searchQuery = << "a" >>
    /\ searchRequests = << >>
    /\ timers = {}

\* The search box holds an address put there by a selection: the user has
\* not edited it since (an edit leaves one of QueryInputs).
C21_Selected == searchQuery # << >> /\ searchQuery \notin QueryInputs

\* C21: once a valid search result has been selected, and until the user
\* next edits the search box, the result set is empty and no forward-search
\* request has been dispatched for the text the selection put in the box.
C21_SelectionClosesList ==
    C21_Selected =>
        /\ searchResults = << >>
        /\ \A n \in 1..Len(searchRequests) : searchRequests[n] # searchQuery

\* C22: isReverseGeocoding is true in every state in which a pin-drop
\* reverse lookup is in flight, and false only when none is.
C22_IndicatorTracksLookups == isReverseGeocoding <=> Len(pinRequests) > 0

\* What each step of the GPS flow does to the loading flag: the trigger
\* leaves it false without geolocation support and true with it, the
\* success callback keeps it true while its lookup is in flight, and the
\* error callback and the settled lookup (resolved or failed) leave it false.
C23_FlagStep ==
    /\ fetchGpsLocation(FALSE) => ~isLoading' /\ error' = MsgUnsupported
    /\ fetchGpsLocation(TRUE) => isLoading' /\ geoPending' = 1
    /\ \A c \in GpsInputs : GeoSuccess(c.lat, c.lng) => isLoading /\ isLoading'
    /\ \A code \in GeoErrorCodes : GeoError(code) => isLoading /\ ~isLoading'
    /\ \A i \in 1..Len(gpsRequests), r \in NominatimResponses :
           GpsResponse(i, r) => isLoading /\ ~isLoading'

\* C23: every GPS trigger eventually returns the loading flag to false, on
\* each outcome (geolocation unsupported, device error, reverse lookup
\* resolved, reverse lookup failed), when the device invokes one of its
\* callbacks and the lookup settles; the flag is true from the trigger
\* until then.
C23_LoadingEnds ==
    /\ [][C23_FlagStep]_vars
    /\ [](isLoading <=> geoPending + Len(gpsRequests) > 0)
    /\ isLoading ~> ~isLoading

C23_Witness ==
    /\ error = MsgUnavailable
    /\ ~isLoading
    /\ geoPending = 0
    /\ gpsRequests = << >>
    /\ activeTab = "gps"

\* White space as the claims mean it: what trim() removes.
C24_IsSpace(c) == CharCode(c) \in {9, 10, 11, 12, 13, 32, 160}

C24_EdgesClean(s) ==
    s # << >> => ~C24_IsSpace(s[1]) /\ ~C24_IsSpace(s[Len(s)])

\* C24 as stated: sanitiseAddress(sanitiseAddress(s)) = sanitiseAddress(s)
\* for every s, and the output never begins or ends with white space, also
\* when the input is longer than 300 characters.
C24_Original ==
    fnCall.fn = "sanitiseAddressTwice" =>
        /\ fnResult.second = fnResult.first
        /\ C24_EdgesClean(fnResult.first)

\* C24 amended: the output never begins with white space. When the input
\* without its control characters and trimmed has at most 300 characters,
\* the output does not end with white space either and a second
\* application returns it unchanged. When it has more, the output ends
\* with white space exactly when the 300th of those characters is white
\* space, and a second application removes that white space at the end and
\* nothing else.
C24_Idempotence ==
    fnCall.fn = "sanitiseAddressTwice" =>
        LET whole == C12_Trimmed(C12_Kept(fnCall.raw))
            first == fnResult.first
            second == fnResult.second
            cutAtSpace == Len(whole) > 300 /\ C24_IsSpace(whole[300])
        IN  /\ first # << >> => ~C24_IsSpace(first[1])
            /\ second = C12_Trimmed(first)
            /\ C24_EdgesClean(second)
            /\ ~cutAtSpace => second = first /\ C24_EdgesClean(first)
            /\ cutAtSpace =>
                   /\ C24_IsSpace(first[Len(first)])
                   /\ second # first
                   /\ Len(second) < Len(first)

C24_Witness ==
    /\ fnCall = [fn |-> "sanitiseAddressTwice",
                 raw |-> << "<DEL>" >> \o Repeat("a", 299) \o << " ", "b" >>]
    /\ fnResult = [first |-> Repeat("a", 299) \o << " " >>, second |-> Repeat("a", 299)]

\* The dashboard shows a row for the place.
C25_RowShown(id) ==
    /\ location = "/admin" /\ ~authLoading /\ ~adminIsLoading /\ user = "admin"
    /\ \/ \E i \in 1..Len(pendingPlaces) : pendingPlaces[i].id = id
       \/ \E i \in 1..Len(allPlaces) : allPlaces[i].id = id

\* C25: while an approve or reject request for a place is in flight, the
\* buttons of that place's rows are disabled, whatever the admin has done
\* to other places meanwhile, and no second request for the same place is
\* in flight.
C25_ButtonsStayDisabled ==
    \A n \in 1..Len(actions) :
        /\ C25_RowShown(actions[n].id) => actionLoading = actions[n].id
        /\ \A m \in 1..Len(actions) : m # n => actions[m].id # actions[n].id

C26_Success(op) ==
    [title |-> "Success",
     description |-> IF op = "approve" THEN "Place approved successfully."
                                       ELSE "Place rejected and deleted."]
C26_Error(op) ==
    [title |-> "Error",
     description |-> IF op = "approve" THEN "Failed to approve place."
                                       ELSE "Failed to reject place."]

C26_ActionStep ==
    /\ \A n \in 1..Len(actions) :
           /\ ActionResponse(n, "ok") =>
                  /\ toasts' = << C26_Success(actions[n].op) >>
                  /\ fetches' = Append(fetches, "token")
                  /\ adminIsLoading'
                  /\ actionLoading' = "null"
           /\ (ActionResponse(n, "not ok") \/ ActionResponse(n, "rejected")
                  \/ ActionToken(n, "rejected")) =>
                  /\ toasts' = << C26_Error(actions[n].op) >>
                  /\ fetches' = fetches
                  /\ adminIsLoading' = adminIsLoading
                  /\ requests' = << >>
                  /\ actionLoading' = "null"
           /\ ActionToken(n, "resolved") =>
                  /\ Len(requests') = 1
                  /\ requests'[1].method = (IF actions[n].op = "approve" THEN "PATCH" ELSE "DELETE")
                  /\ fetches' = fetches
    /\ \A id \in PlaceIds :
           handleReject(id, FALSE) =>
               /\ requests' = << >>
               /\ actions' = actions
               /\ actionLoading' = actionLoading
               /\ fetches' = fetches
    /\ Len(actions') < Len(actions) => actionLoading' = "null"
    /\ (Len(actions') # Len(actions) /\ Len(fetches') > Len(fetches)) =>
           /\ toasts' # << >>
           /\ toasts'[1].title = "Success"

\* C26: an approve or reject refreshes the data only after a success
\* response; a failure of the token, of the network or a non-success
\* response shows the error toast and starts no refresh; actionLoading is
\* null after every action; a reject that was not confirmed sends nothing,
\* and every reject in flight was confirmed.
C26_RefreshOnlyOnSuccess == [][C26_ActionStep]_vars

C26_Witness ==
    /\ toasts = << C26_Error("approve") >>
    /\ actionLoading = "null"
    /\ actions = << >>
    /\ fetches = << >>
    /\ ~adminIsLoading

\* C27 as stated: no request to an /api/admin/ endpoint is issued in a
\* state in which the user is absent or is not an admin.
C27_Original == requests # << >> => user = "admin"

C27_StartStep ==
    /\ (\/ RefreshData
        \/ \E id \in PlaceIds : handleApprove(id)
        \/ \E id \in PlaceIds, confirmed \in BOOLEAN : handleReject(id, confirmed))
           => user = "admin" /\ ~authLoading /\ location = "/admin"
    /\ Len(actions') > Len(actions) => user = "admin"
    /\ Len(fetches') > Len(fetches) =>
           \/ user' = "admin"
           \/ /\ Len(actions') < Len(actions)
              /\ toasts' # << >>
              /\ toasts'[1].title = "Success"
    /\ (requests' # << >> /\ user' # "admin") =>
           \/ \E n \in 1..Len(fetches) : fetches[n] = "token" /\ fetches'[n] = "fetch"
           \/ \E n \in 1..Len(actions) :
                  /\ actions[n].stage = "token" /\ actions[n].user = "admin"
                  /\ actions'[n] = [actions[n] EXCEPT !.stage = "fetch"]

\* C27 amended: with the user absent or not an admin no fetchData, approve
\* or reject is started by the user or by the fetch effect: the controls
\* are not rendered and the effect does not call fetchData. Every
\* invocation in flight was started while the user was an admin; it
\* goes on after its await and issues its requests, and a successful
\* action its refresh, also when the user has changed meanwhile.
C27_StartedAsAdmin ==
    /\ [] (\A n \in 1..Len(actions) : actions[n].user = "admin")
    /\ [][C27_StartStep]_vars

C27_Witness ==
    /\ user = "none"
    /\ location = "/"
    /\ Len(requests) = 3
    /\ fetches = << "fetch" >>

\* The email argument of the command line, "" when there is none.
C28_Email == IF Len(args) >= 2 THEN args[2] ELSE ""
C28_Command == IF Len(args) >= 1 THEN args[1] ELSE ""
C28_Known == \E id \in DOMAIN users : users[id].email = C28_Email

C28_Step ==
    /\ users' # users =>
           /\ C28_Command = "make-admin"
           /\ C28_Email # ""
           /\ \E id \in DOMAIN users :
                  /\ users[id].email = C28_Email
                  /\ users'[id] = [email |-> C28_Email, isAdmin |-> TRUE]
                  /\ \A other \in DOMAIN users \ {id} : users'[other] = users[other]
    /\ places' # places => C28_Command = "migrate-places"
    /\ \A id \in DOMAIN users : users[id].isAdmin => users'[id].isAdmin
    /\ \A id \in DOMAIN places : places[id].approved => places'[id].approved
    /\ DOMAIN users' = DOMAIN users /\ DOMAIN places' = DOMAIN places

\* C28: make-admin changes the database only when an email is given and a
\* user has it, and then sets isAdmin on exactly one user with that email;
\* with no email or an unknown one it exits with status 1 and changes no
\* row. No command sets isAdmin or approved to false; list-users and the
\* usage fallback change nothing.
C28_MakeAdmin ==
    /\ [][C28_Step]_vars
    /\ [] ((pc # "idle" /\ C28_Command = "make-admin" /\ C28_Email = "") =>
               pc = "exited" /\ exitCode = [status |-> 1])
    /\ [] ((C28_Command = "make-admin" /\ ~C28_Known /\ pc \notin {"idle", "select user", "rejected"}) =>
               pc = "exited" /\ exitCode = [status |-> 1])
    /\ [] ((C28_Command = "make-admin" /\ pc \in {"pool.end", "done"}) =>
               /\ C28_Known
               /\ users[selected] = [email |-> C28_Email, isAdmin |-> TRUE])
    /\ [] (pc = "exited" => C28_Command = "make-admin" /\ (C28_Email = "" \/ ~C28_Known))

C28_Witness ==
    /\ pc = "done"
    /\ exitCode = [status |-> 0]
    /\ args = << "make-admin", "a@x.ae" >>
    /\ users[3].isAdmin
    /\ ~users[1].isAdmin
    /\ ~users[2].isAdmin

=============================================================================
